---- MODULE Spec2Model ----
(***************************************************************************)
(* TapIn client-side authentication bridge (AuthManager) and API helpers.  *)
(*                                                                         *)
(* The repository carries four copies of AuthManager:                      *)
(*   "v1"  src/static/js/auth.js lines    1..315  (no refresh, 500ms wait) *)
(*   "v2"  src/static/js/auth.js lines  316..812  (refresh, safeFetch)     *)
(*   "v3"  src/static/js/auth.js lines  919..1259 (refresh, get_token)     *)
(*   "p2"  src/unnamed/part_002                    (refresh, 250ms recheck)*)
(* One page life is modelled: the DOMContentLoaded handler with init(),    *)
(* its timers, and the operations page scripts call afterwards.  The       *)
(* server is an adversary: every response is drawn from a small set.       *)
(***************************************************************************)
EXTENDS Integers, Sequences, FiniteSets, TLC

(***************************************************************************)
(* Bounds                                                                  *)
(***************************************************************************)
\* request counters of one apiCall invocation saturate at this value
MaxCount == 3
\* number of operations page scripts start during one page life
MaxOps == 2
\* longest run of digits typed into the joinPin field
MaxPinLen == 7
\* last instant of the attendance server's clock
MaxTime == 2
\* Math.random() is sampled at multiples of 1 / RandomSteps
RandomSteps == 1000
\* classes created on the list page
MaxClasses == 3
\* requests the student class page issues during one page life
MaxLoads == 3
\* parameters in the query string of the address
MaxParams == 2
\* length of the longest password typed into the password input
MaxPwLen == 9

(***************************************************************************)
(* JavaScript values.  Strings that the code only compares are atoms;      *)
(* texts that the code searches or concatenates are sequences of words.    *)
(***************************************************************************)
NULL == "<null>"
UNDEF == "<undefined>"
UNDEFT == <<"<undefined>">>
NOTEXT == <<>>

\* JS truthiness of a string-or-null value
Truthy(v) == v \notin {NULL, UNDEF, ""}
\* JS truthiness of a text
TruthyT(t) == t \notin {NOTEXT, UNDEFT}
\* a || b on texts
OrT(a, b) == IF TruthyT(a) THEN a ELSE b
\* String(v), as sessionStorage.setItem applies it to its value
ToStorage(v) == IF v = UNDEF THEN "undefined" ELSE IF v = NULL THEN "null" ELSE v
\* text.includes(word)
IncludesWord(t, w) == \E i \in 1..Len(t) : t[i] = w
\* text.includes(sub)
Contains(t, sub) == \E i \in 0..(Len(t) - Len(sub)) : \A j \in 1..Len(sub) : t[i + j] = sub[j]

Tokens == {"T1", "T2"}
E1 == <<"Invalid", "credentials">>
EV == <<"Please", "verify", "your", "email">>
M1 == <<"Welcome">>

(***************************************************************************)
(* User objects and JSON bodies                                            *)
(***************************************************************************)
NullUser == [kind |-> "null", id |-> NULL, role |-> NULL]
UndefUser == [kind |-> "undef", id |-> UNDEF, role |-> UNDEF]
U1 == [kind |-> "obj", id |-> "u1", role |-> "student"]
U2 == [kind |-> "obj", id |-> "u2", role |-> "lecturer"]

\* an empty JSON object; absent fields read as undefined
EmptyBody == [kind |-> "obj", token |-> UNDEF, error |-> UNDEFT, message |-> UNDEFT, status |-> UNDEF, user |-> UndefUser, redirect_url |-> UNDEF, id |-> UNDEF, role |-> UNDEF]
\* JSON null
NullBody == [EmptyBody EXCEPT !.kind = "null"]
\* a body response.json() cannot parse
BadBody == [EmptyBody EXCEPT !.kind = "bad"]
ErrBody(e) == [EmptyBody EXCEPT !.error = e]
ProfileBody(u) == [EmptyBody EXCEPT !.id = u.id, !.role = u.role]
\* the object a profile body is when stored as this.user
AsUser(b) == [kind |-> "obj", id |-> b.id, role |-> b.role]

\* response.text() of a body, as far as the error texts it carries
RawText(b) == IF b.kind = "bad" THEN <<"<html>">> ELSE IF b.kind = "null" THEN <<"null">> ELSE <<"{">> \o (IF b.error # UNDEFT THEN <<"error:">> \o b.error ELSE <<>>) \o (IF b.message # UNDEFT THEN <<"message:">> \o b.message ELSE <<>>) \o <<"}">>

StatusStr(s) == CASE s = 200 -> "200" [] s = 401 -> "401" [] s = 403 -> "403" [] OTHER -> "500"
StatusText(s) == CASE s = 200 -> "OK" [] s = 401 -> "UNAUTHORIZED" [] s = 403 -> "FORBIDDEN" [] OTHER -> "INTERNAL SERVER ERROR"
\* response.ok
Ok(r) == r.status >= 200 /\ r.status <= 299

Resp(s, b) == [net |-> FALSE, status |-> s, body |-> b]
\* fetch() rejects
NetFail == [net |-> TRUE, status |-> 0, body |-> BadBody]

\* what the server may answer, per endpoint
HealthResponses == {NetFail, Resp(200, [EmptyBody EXCEPT !.status = "ok"]), Resp(200, BadBody), Resp(401, ErrBody(E1))}
TokenResponses == {NetFail, Resp(200, BadBody), Resp(200, EmptyBody), Resp(401, ErrBody(E1))} \cup {Resp(200, [EmptyBody EXCEPT !.token = t]) : t \in Tokens}
ApiResponses == {NetFail, Resp(200, ProfileBody(U1)), Resp(200, ProfileBody(U2)), Resp(200, ErrBody(E1)), Resp(200, NullBody), Resp(200, BadBody), Resp(401, ErrBody(E1)), Resp(403, ErrBody(EV)), Resp(500, ErrBody(NOTEXT)), Resp(500, BadBody)}
LoginOk(t) == [EmptyBody EXCEPT !.token = t, !.user = U1, !.message = M1, !.redirect_url = "/student/dashboard"]
LoginResponses == {NetFail, Resp(200, LoginOk("T1")), Resp(200, LoginOk("T2")), Resp(200, [EmptyBody EXCEPT !.message = M1]), Resp(200, NullBody), Resp(401, ErrBody(E1)), Resp(403, ErrBody(EV)), Resp(403, [EmptyBody EXCEPT !.message = EV]), Resp(500, BadBody)}

(***************************************************************************)
(* window.location.pathname: '/a/b' is <<"a", "b">>                        *)
(***************************************************************************)
Paths == {<<"lecturer", "dashboard">>, <<"student", "classes">>, <<"student">>, <<"dashboard">>, <<"app", "lecturer", "x">>, <<"account">>, <<"student_login">>}

\* seg begins with pre, for the segments of Paths
SegBegins(seg, pre) == seg = pre \/ <<seg, pre>> \in {<<"student_login", "student">>, <<"lecturer_login", "lecturer">>}
\* pathname.includes('/' + d + '/')
IncludesDir(p, d) == \E i \in 1..(Len(p) - 1) : p[i] = d
\* pathname.includes('/' + s)
IncludesSeg(p, s) == \E i \in 1..Len(p) : SegBegins(p[i], s)
\* pathname.includes('/' + d + '/' + s)
IncludesDirSeg(p, d, s) == \E i \in 1..(Len(p) - 1) : p[i] = d /\ SegBegins(p[i + 1], s)
\* pathname.startsWith('/' + s)
StartsWithSeg(p, s) == Len(p) >= 1 /\ SegBegins(p[1], s)
\* pathname.startsWith('/' + d + '/')
StartsWithDir(p, d) == Len(p) >= 2 /\ p[1] = d

\* mutant of authPages: only '/account' is skipped
authPages_accountOnly == {"account"}

authPages == {"account", "lecturer_login", "student_login", "lecturer_create_account", "student_create_account", "lecturer_forgot_password", "student_forgot_password", "reset_password"}
IsAuthPage(p) == \E page \in authPages : IncludesSeg(p, page)

\* the role-specific login page init() and the handler of v2 and p2 compute
RoleLoginPath(p) == IF IncludesDir(p, "lecturer") THEN "/lecturer_login" ELSE IF IncludesDir(p, "student") THEN "/student_login" ELSE "/account"
loginPath(v, p) == IF v \in {"v2", "p2"} THEN RoleLoginPath(p) ELSE "/account"

(***************************************************************************)
(* Request headers and options objects                                     *)
(***************************************************************************)
HeaderNames == {"Content-Type", "Authorization", "X-Custom"}
ABSENT == <<>>
NoHeaders == [h \in HeaderNames |-> ABSENT]
Bearer(t) == <<"Bearer", t>>
\* { ...a, ...b } on header objects
Spread(a, b) == [h \in HeaderNames |-> IF b[h] # ABSENT THEN b[h] ELSE a[h]]

NoOptions == [hasHeaders |-> FALSE, headers |-> NoHeaders]
CustomOptions == [hasHeaders |-> TRUE, headers |-> [NoHeaders EXCEPT !["X-Custom"] = <<"1">>]]
OwnAuthOptions == [hasHeaders |-> TRUE, headers |-> [NoHeaders EXCEPT !["Authorization"] = <<"Basic", "own">>]]
OptionsSet == {NoOptions, CustomOptions, OwnAuthOptions}

(***************************************************************************)
(* AuthManager: pure parts                                                 *)
(***************************************************************************)
\* getToken(): the value returned, which is also this.token afterwards
getToken(tok, ses) == IF Truthy(ses) THEN ses ELSE tok

\* the token apiCall builds its headers from: v1 reads this.token, the
\* others call getToken()
currentToken(v, tok, ses) == IF v = "v1" THEN tok ELSE getToken(tok, ses)

defaultHeaders(t) == [h \in HeaderNames |-> IF h = "Content-Type" THEN <<"application/json">> ELSE IF h = "Authorization" /\ Truthy(t) THEN Bearer(t) ELSE ABSENT]

\* finalOptions.headers
finalHeaders(t, options) == IF options.hasHeaders THEN Spread(defaultHeaders(t), options.headers) ELSE defaultHeaders(t)

\* attemptCall: finalOptions.headers['Authorization'] = `Bearer ${tokenForCall}`
attemptHeaders(h, tokenForCall) == IF Truthy(tokenForCall) THEN [h EXCEPT !["Authorization"] = Bearer(tokenForCall)] ELSE h

\* headers of the first request of an apiCall
apiCallHeaders(v, t, options) == IF v = "v1" THEN finalHeaders(t, options) ELSE attemptHeaders(finalHeaders(t, options), t)

\* window.apiCall of the configuration script: fetch(url, { ...defaultOptions, ...options })
windowApiCallHeaders(ses, options) == IF options.hasHeaders THEN options.headers ELSE Spread(defaultHeaders(ses), options.headers)

\* api() of the class pages: Content-Type, then options.headers, then the bearer
pageApiHeaders(tok, options) == Spread(Spread([NoHeaders EXCEPT !["Content-Type"] = <<"application/json">>], options.headers), IF Truthy(tok) THEN [NoHeaders EXCEPT !["Authorization"] = Bearer(tok)] ELSE NoHeaders)

\* what api() of a class page resolves to
pageApiResult(sc, r) == IF sc = "student_class" THEN (IF r.net \/ r.body.kind = "bad" THEN ErrBody(<<"Network error">>) ELSE r.body) ELSE (IF r.net \/ ~Ok(r) \/ r.body.kind = "bad" THEN ErrBody(<<"Failed to connect to the server.">>) ELSE r.body)

ProfileEndpoint(v) == IF v \in {"v1", "v3"} THEN "/profile/me" ELSE "/auth/me"

FetchMsg == <<"Failed to fetch">>
ParseMsg == <<"Unexpected token">>
NullMsg == <<"Cannot read properties of null">>
NetworkError(msg) == ErrBody(<<"Network error:">> \o msg)
SessionExpired == ErrBody(<<"Session expired. Please log in again.">>)
AuthRequired == ErrBody(<<"Authentication required. Please log in again.">>)
HttpText(s) == <<"HTTP", StatusStr(s), StatusText(s)>>

\* mutant of nonOkResult: the server's error text is dropped
nonOkResult_dropsError(v, r) == ErrBody(HttpText(r.status))

\* response.json().catch(() => fallback) of a non-ok response
errorData(v, r) == IF r.body.kind = "bad" THEN ErrBody(IF v = "v1" THEN <<"Request failed">> ELSE <<StatusText(r.status)>>) ELSE r.body

\* what apiCall resolves to for a non-ok response other than 401
nonOkResult(v, r) == IF errorData(v, r).kind = "null" THEN NetworkError(NullMsg) ELSE ErrBody(OrT(errorData(v, r).error, HttpText(r.status)))

\* mutant of okResult: a parsable 2xx body is reported as a network error
okResult_alwaysFails(v, r) == NetworkError(ParseMsg)

\* what apiCall resolves to for an ok response; v1 reads data.role in its
\* debug log of the profile and classes endpoints
okResult(v, r) == IF r.body.kind = "bad" THEN NetworkError(ParseMsg) ELSE IF r.body.kind = "null" /\ v = "v1" THEN NetworkError(NullMsg) ELSE r.body

\* what apiCall resolves to for a response that is not 401
settledResult(v, r) == IF r.net THEN NetworkError(FetchMsg) ELSE IF ~Ok(r) THEN nonOkResult(v, r) ELSE okResult(v, r)

\* does the refresh of attemptCall obtain a token from this response
refreshOk(r) == ~r.net /\ Ok(r) /\ r.body.kind = "obj" /\ Truthy(r.body.token)

\* mutant of profileValid: the error field of the profile is not looked at
profileValid_ignoresError(userData) == userData.kind # "null"

\* init(): userData && !userData.error
profileValid(userData) == userData.kind # "null" /\ ~TruthyT(userData.error)

\* init(): response.ok && healthData.status === 'ok'
healthThrows(r) == r.net \/ r.body.kind = "bad" \/ (Ok(r) /\ r.body.kind = "null")
healthOk(r) == ~healthThrows(r) /\ Ok(r) /\ r.body.status = "ok"

\* init(): tokenResponse.ok && tokenData.token, after tokenResponse.json()
bridgeOk(r) == ~r.net /\ r.body.kind = "obj" /\ Ok(r) /\ Truthy(r.body.token)

(***************************************************************************)
(* State                                                                   *)
(***************************************************************************)
VARIABLES variant, path, protocol, script, urlParam, token, user, sess, href, TOKEN, hpc, initRet, bridge, timer, api, op, lastApiReq, ui, srv, refreshed, local, list, loc, form, acct, side

vars == <<variant, path, protocol, script, urlParam, token, user, sess, href, TOKEN, hpc, initRet, bridge, timer, api, op, lastApiReq, ui, srv, refreshed, local, list, loc, form, acct, side>>

\* refreshed is the token the latest refresh of attemptCall stored, if any

\* fixed during one page life
page == <<variant, path, protocol, script>>

Variants == {"v1", "v2", "v3", "p2"}
Callers == {"init", "timer", "page"}

\* no response received yet
NoResp == [net |-> FALSE, status |-> 0, body |-> EmptyBody]
IdleFrame == [pc |-> "idle", endpoint |-> "", headers |-> NoHeaders, nReq |-> 0, nTok |-> 0, expired |-> FALSE, resp |-> NoResp, result |-> EmptyBody]
\* what init() obtained: the token of /api/get_token when it took the
\* bridge, and the outcome of its profile apiCall
NoBridge == [tok |-> NULL, done |-> FALSE, nReq |-> 0, expired |-> FALSE, result |-> EmptyBody]
NoResult == [success |-> FALSE, error |-> UNDEFT, message |-> UNDEFT]
IdleOp == [pc |-> "idle", kind |-> "none", n |-> 0, student |-> FALSE, expired |-> FALSE, rejected |-> FALSE, resp |-> NoResp, login |-> NoResult, data |-> EmptyBody]

\* the page scripts that may accompany auth.js on a path
Scripts(p) == {"none"} \cup (IF StartsWithDir(p, "student") THEN {"student_class"} ELSE {}) \cup (IF StartsWithDir(p, "lecturer") THEN {"lecturer_class"} ELSE {})
NoTimer == [kind |-> "none", pc |-> "idle", ok |-> FALSE, expired |-> FALSE]

\* the student class page: the join modal, the joinPin field of the form,
\* the class list shown, and the POST /api/classes/join in flight
NoPin == <<>>
InitUi == [modal |-> "none", joinPin |-> NoPin, classes |-> "none", nPost |-> 0, join_pin |-> NoPin]

(***************************************************************************)
(* The attendance server (POST /api/attendance/mark).  Its code is not     *)
(* part of the sources at hand; it is modelled from the specification and  *)
(* the schema of README.md: sessions with method, pin_code, lecturer       *)
(* position, radius_m, expires_at and is_open; records with session_id,    *)
(* student_id and status.  Positions are points of a line.                 *)
(***************************************************************************)
Students == {"s1", "s2"}
SessionIds == {1, 2}
Places == {0, 1, 3}
LecturerPlaces == {1}
Radii == {1}
PinCodes == {"1234", "9999"}
SessionPins == {"1234"}
Durations == {0, 1}
NoSession == [exists |-> FALSE, method |-> "pin", pin_code |-> "", lecturer_pos |-> 0, radius_m |-> 0, expires_at |-> 0, is_open |-> FALSE]
\* srv.mark is the mark request the latest step of the server answered
NoMark == [student_id |-> "", session_id |-> 0, pos |-> 0, pin |-> "", accepted |-> FALSE]
InitSrv == [now |-> 0, sessions |-> [s \in SessionIds |-> NoSession], records |-> {}, mark |-> NoMark]

(***************************************************************************)
(* The lecturer's pages that keep their data in localStorage: the class    *)
(* list page (student_javascript.js) and the class page                    *)
(* (class_page_javascript.js).  A class is the number of the submit that   *)
(* created it (its form values); an index is 0-based as in the code.       *)
(***************************************************************************)
Tabs == {1, 2}
NoClass == 0
\* getItem('lastClassIndex') or urlParams.get('index') giving null
NoIndex == 0 - 1
\* local.classes is localStorage 'classes'; local.mem[t] and
\* local.rendered[t] are the variable `classes` and the rows of #classList
\* of the list page open in tab t; local.records[i] is the class for which
\* the records under 'attendanceRecords_<i>' were taken and local.lastFor the
\* class for which 'lastClassIndex' was saved; local.created and
\* local.deleted are the classes submitted and the classes whose delete
\* button was clicked; local.by is the tab of the latest list operation.
InitLocal == [classes |-> <<>>, lastClassIndex |-> NoIndex, lastFor |-> NoClass, records |-> [i \in 0..(MaxClasses - 1) |-> NoClass], mem |-> [t \in Tabs |-> <<>>], rendered |-> [t \in Tabs |-> <<>>], loaded |-> [t \in Tabs |-> FALSE], created |-> 0, deleted |-> {}, by |-> 0]

(***************************************************************************)
(* The class list of the student class page (student_class.js): the GET    *)
(* /api/classes requests of loadClasses() and the requests of the join and *)
(* the leave handlers, several of which may be in flight at once.  A class *)
(* is its id.                                                              *)
(***************************************************************************)
ClassIds == {1, 2}
ClassLists == {<<>>, <<1>>, <<1, 2>>, <<2>>}
\* what api('/api/classes') may resolve to: an array, or an object with error
GetAnswers == {[error |-> TRUE, list |-> <<>>]} \cup {[error |-> FALSE, list |-> l] : l \in ClassLists}
NoAnswer == [error |-> TRUE, list |-> <<>>]
NoLeave == [sent |-> 0, shown |-> 0]
\* list.issued counts the GET requests issued, list.flying holds those not
\* yet answered and list.got[k] is the answer to the k-th; list.classes is
\* the variable `classes` and list.rows the ids of the rendered rows;
\* list.joins and list.leaves count the POST and DELETE requests in flight;
\* list.leave is the id the latest leave click sent and the id its row showed.
InitList == [issued |-> 0, flying |-> {}, got |-> [k \in 1..MaxLoads |-> NoAnswer], classes |-> <<>>, rows |-> <<>>, joins |-> 0, leaves |-> 0, leave |-> NoLeave]

(***************************************************************************)
(* window.location.search and URLSearchParams.  A query string is the      *)
(* sequence of its raw parameters; a raw parameter has a name, says whether*)
(* an '=' follows it, and has the units of its raw value: a character, '+' *)
(* or a percent escape.                                                    *)
(***************************************************************************)
RawParam(name, eq, raw) == [name |-> name, eq |-> eq, raw |-> raw]
TokenParam(t) == RawParam("auth_token", TRUE, <<t>>)
\* the raw parameters a query string is built from
RawParams == {TokenParam("T2"), TokenParam("T1"), RawParam("auth_token", TRUE, <<>>), RawParam("next", TRUE, <<"%2F", "a">>), RawParam("q", TRUE, <<"a", "%20", "b">>), RawParam("q", TRUE, <<"a", "+", "b">>), RawParam("flag", FALSE, <<>>)}
\* percent-decoding of one unit of a raw value
DecodeUnit(u) == CASE u \in {"+", "%20"} -> " " [] u = "%2F" -> "/" [] OTHER -> u
\* application/x-www-form-urlencoded encoding of one character
EncodeChar(ch) == CASE ch = " " -> "+" [] ch = "/" -> "%2F" [] OTHER -> ch
\* new URLSearchParams(search): the list of name-value pairs
ParseSearch(search) == [i \in 1..Len(search) |-> [name |-> search[i].name, value |-> [j \in 1..Len(search[i].raw) |-> DecodeUnit(search[i].raw[j])]]]
\* urlParams.toString()
SerializeParams(params) == [i \in 1..Len(params) |-> RawParam(params[i].name, TRUE, [j \in 1..Len(params[i].value) |-> EncodeChar(params[i].value[j])])]
\* urlParams.delete(name)
DeleteParam(params, name) == SelectSeq(params, LAMBDA pr : pr.name # name)
\* the value of a parameter as a string: a token, or the empty string
ValueString(value) == IF value = <<>> THEN "" ELSE value[1]
\* urlParams.get('auth_token'): the first such parameter, or null
authTokenParam(search) == IF \E i \in 1..Len(search) : search[i].name = "auth_token" THEN ValueString(ParseSearch(search)[CHOOSE i \in 1..Len(search) : search[i].name = "auth_token" /\ \A j \in 1..(i - 1) : search[j].name # "auth_token"].value) ELSE NULL
\* mutant of cleanSearch: the address is left as it is
cleanSearch_keeps(search) == search
\* the query of cleanUrl: the parameters without auth_token, serialised
cleanSearch(search) == SerializeParams(DeleteParam(ParseSearch(search), "auth_token"))
\* loc.search is the query string of the address, loc.took the token init()
\* took from it and is validating
InitLoc == [search |-> <<>>, took |-> NULL]
\* the query strings of the pages of Spec
PageSearches == {<<>>, <<TokenParam("T2")>>}

(***************************************************************************)
(* The password input and its feedback element (validatePassword)          *)
(***************************************************************************)
\* form.passwordEl, form.feedback, form.checks and form.meter say whether
\* the password input, the feedback element, its rule indicators and its
\* strength bar and text exist; form.pwd is the value of the input;
\* form.ret is what the latest validatePassword() returned, form.text the
\* strength text and form.marks the rules shown as met.
InitForm == [passwordEl |-> FALSE, feedback |-> FALSE, checks |-> FALSE, meter |-> FALSE, pwd |-> <<>>, ret |-> "none", text |-> "", marks |-> {}, display |-> ""]

(***************************************************************************)
(* The account page (account_javascript.js)                                *)
(***************************************************************************)
\* the raw parameters of the query string of the account page
AccountParams == {RawParam("verify_token", TRUE, <<"V1">>), RawParam("verify_token", TRUE, <<"V2">>), RawParam("verify_token", TRUE, <<>>), RawParam("auth_token", TRUE, <<"T1">>), RawParam("next", TRUE, <<"%2F", "a">>), RawParam("flag", FALSE, <<>>)}
\* urlParams.get('verify_token'): the first such parameter, or null
verifyTokenParam(search) == IF \E i \in 1..Len(search) : search[i].name = "verify_token" THEN ValueString(ParseSearch(search)[CHOOSE i \in 1..Len(search) : search[i].name = "verify_token" /\ \A j \in 1..(i - 1) : search[j].name # "verify_token"].value) ELSE NULL
\* acct.checked is the radio button that is checked and acct.links the role
\* whose addresses the two links carry; acct.ran says that the
\* DOMContentLoaded handler has run, acct.handled is the token a
\* verification operation was given, acct.error the error the handler
\* raised.
InitAcct == [checked |-> "lecturer", links |-> "lecturer", ran |-> FALSE, handled |-> NULL, error |-> "none"]

(***************************************************************************)
(* The sidebar of the lecturer class page (class_page_javascript.js)       *)
(***************************************************************************)
\* side.collapsed says that the sidebar has the class 'collapsed',
\* side.icon is the class of the icon of the toggle button, side.stored the
\* localStorage item 'sidebarCollapsed', side.innerWidth is
\* window.innerWidth and side.submenu says that the program submenu is
\* active; side.classList says that the page has the
\* element #classList; side.pc is the position of the asynchronous
\* DOMContentLoaded handler and side.listeners the click listeners
\* registered on the toggle button; side.before is the collapsed state
\* before the latest click ("none" when the latest step was not a click).
\* the widths of the window
Widths == {500, 768, 769, 1200}
InitSide == [collapsed |-> FALSE, icon |-> "fa-bars", stored |-> NULL, innerWidth |-> 1200, submenu |-> FALSE, classList |-> TRUE, pc |-> "start", listeners |-> <<"top">>, before |-> "none"]

Inc(n) == IF n < MaxCount THEN n + 1 ELSE MaxCount

\* the frame of an apiCall right after its first fetch() was issued
apiCallBegin(v, endpoint, options, tok, ses) == [pc |-> "wait", endpoint |-> endpoint, headers |-> apiCallHeaders(v, currentToken(v, tok, ses), options), nReq |-> 1, nTok |-> 0, expired |-> FALSE, resp |-> NoResp, result |-> EmptyBody]

apiReq(h, ses) == [helper |-> "AuthManager.apiCall", headers |-> h, sess |-> ses]
pageReq(h, ses) == [helper |-> "api", headers |-> h, sess |-> ses]
windowReq(h, ses) == [helper |-> "window.apiCall", headers |-> h, sess |-> ses]

Init ==
    /\ variant \in Variants
    /\ path \in Paths
    /\ protocol \in {"http:", "file:"}
    /\ script \in Scripts(path)
    /\ loc \in {[InitLoc EXCEPT !.search = search] : search \in PageSearches}
    /\ urlParam = authTokenParam(loc.search)
    /\ sess \in {NULL, "T1"}
    /\ token = NULL
    /\ user = NullUser
    /\ href = "none"
    /\ hpc = "start"
    /\ initRet = "none"
    /\ bridge = NoBridge
    /\ timer = NoTimer
    /\ api = [c \in Callers |-> IdleFrame]
    /\ op = IdleOp
    /\ TOKEN = NULL
    /\ lastApiReq = {}
    /\ ui = InitUi
    /\ srv = InitSrv
    /\ refreshed = NULL
    /\ local = InitLocal /\ list = InitList /\ side = InitSide /\ acct = InitAcct /\ form = InitForm

(***************************************************************************)
(* DOMContentLoaded handler of auth.js and init(), up to the first await   *)
(***************************************************************************)
\* init(): token taken from the auth_token URL parameter (v2 and p2)
takesUrlToken(v, param) == v \in {"v2", "p2"} /\ Truthy(param)

DOMContentLoaded ==
    /\ hpc = "start"
    /\ UNCHANGED <<page, side, acct, form, local, list, srv, refreshed, ui, user, bridge, timer>>
    /\ LET runsInit == ~IsAuthPage(path) /\ protocol # "file:"
           sesA == IF runsInit /\ takesUrlToken(variant, urlParam) THEN ToStorage(urlParam) ELSE sess
           tokA == IF takesUrlToken(variant, urlParam) THEN urlParam ELSE token
           tokB == IF Truthy(sesA) THEN sesA ELSE tokA
           validates == runsInit /\ Truthy(tokB)
           frame == apiCallBegin(variant, ProfileEndpoint(variant), NoOptions, tokB, sesA)
       IN /\ sess' = sesA
          /\ loc' = IF runsInit /\ takesUrlToken(variant, urlParam) THEN [search |-> cleanSearch(loc.search), took |-> urlParam] ELSE loc
          /\ urlParam' = IF runsInit /\ variant \in {"v2", "p2"} THEN NULL ELSE urlParam
          /\ token' = IF runsInit THEN tokB ELSE token
          /\ hpc' = IF IsAuthPage(path) THEN "done" ELSE IF ~runsInit THEN "post" ELSE IF validates THEN "validate" ELSE "health"
          /\ initRet' = IF IsAuthPage(path) THEN "skipped" ELSE IF ~runsInit THEN "false" ELSE "none"
          /\ api' = IF validates THEN [api EXCEPT !["init"] = frame] ELSE api
          \* the page script's own DOMContentLoaded listener runs in the same
          \* dispatch, before or after the one of auth.js
          /\ \E first \in {"auth", "page"} :
                /\ TOKEN' = IF script = "none" THEN NULL ELSE IF first = "page" THEN sess ELSE sesA
                /\ href' = IF script = "student_class" /\ ~Truthy(TOKEN') THEN "student_login.html" ELSE href
                /\ op' = IF script = "none" \/ href' # "none" THEN op ELSE [op EXCEPT !.pc = "pageApi", !.kind = "loadClasses"]
                /\ lastApiReq' = (IF validates THEN {apiReq(frame.headers, sesA)} ELSE {}) \cup (IF op'.pc = "pageApi" THEN {pageReq(pageApiHeaders(TOKEN', NoOptions), TOKEN')} ELSE {})

\* init(): the answer of /api/health
HealthResponse ==
    /\ hpc = "health"
    /\ UNCHANGED <<page, side, acct, form, loc, local, list, srv, refreshed, ui, urlParam, user, sess, token, TOKEN, bridge, api, op>>
    /\ lastApiReq' = {}
    /\ \E r \in HealthResponses :
        IF healthOk(r) /\ variant # "v1"
        THEN hpc' = "token" /\ UNCHANGED <<href, initRet, timer>>
        ELSE IF healthOk(r)
        THEN IF IncludesDirSeg(path, "lecturer", "dashboard") \/ IncludesDirSeg(path, "student", "dashboard")
             THEN /\ timer' = [NoTimer EXCEPT !.kind = "retry500", !.pc = "pending"]
                  /\ initRet' = "retrying"
                  /\ hpc' = "post"
                  /\ UNCHANGED href
             ELSE /\ href' = "/account"
                  /\ initRet' = "false"
                  /\ hpc' = "post"
                  /\ UNCHANGED timer
        ELSE /\ initRet' = "false"
             /\ hpc' = "post"
             /\ IF variant = "v1"
                THEN UNCHANGED <<href, timer>>
                ELSE IF variant = "p2" /\ ~healthThrows(r) /\ (StartsWithSeg(path, "lecturer") \/ StartsWithSeg(path, "student"))
                THEN timer' = [NoTimer EXCEPT !.kind = "recheck250", !.pc = "pending"] /\ UNCHANGED href
                ELSE href' = loginPath(variant, path) /\ UNCHANGED timer

\* init(): the answer of /api/get_token (v2, v3, p2)
TokenResponse ==
    /\ hpc = "token"
    /\ UNCHANGED <<page, side, acct, form, loc, local, list, srv, refreshed, ui, urlParam, user, TOKEN, timer, op>>
    /\ \E r \in TokenResponses :
        IF bridgeOk(r)
        THEN /\ token' = getToken(r.body.token, ToStorage(r.body.token))
             /\ sess' = ToStorage(r.body.token)
             /\ bridge' = [NoBridge EXCEPT !.tok = r.body.token]
             /\ api' = [api EXCEPT !["init"] = apiCallBegin(variant, ProfileEndpoint(variant), NoOptions, r.body.token, sess')]
             /\ lastApiReq' = {apiReq(api'["init"].headers, sess')}
             /\ hpc' = "bridge"
             /\ UNCHANGED <<href, initRet>>
        ELSE /\ href' = loginPath(variant, path)
             /\ initRet' = "false"
             /\ hpc' = "post"
             /\ UNCHANGED <<token, sess, bridge, api>>
             /\ lastApiReq' = {}

\* init(): apiCall for the profile has resolved
InitProfile ==
    /\ hpc \in {"bridge", "validate"}
    /\ api["init"].pc = "done"
    /\ UNCHANGED <<page, side, acct, form, local, list, srv, refreshed, ui, urlParam, TOKEN, timer, op>>
    /\ loc' = [loc EXCEPT !.took = NULL]
    /\ lastApiReq' = {}
    /\ bridge' = [bridge EXCEPT !.done = TRUE, !.nReq = api["init"].nReq, !.expired = api["init"].expired, !.result = api["init"].result]
    /\ hpc' = "post"
    /\ api' = [api EXCEPT !["init"] = IdleFrame]
    /\ IF profileValid(api["init"].result)
       THEN /\ user' = AsUser(api["init"].result)
            /\ initRet' = "true"
            /\ UNCHANGED <<token, sess, href>>
       ELSE /\ token' = NULL
            /\ user' = NullUser
            /\ sess' = NULL
            /\ href' = "/logout"
            /\ initRet' = "false"

\* mutant of handlerRedirects: the handler never redirects
handlerRedirects_never(v, p, proto, ret) == FALSE

\* the handler's redirect condition after init() returned
handlerRedirects(v, p, proto, ret) == CASE v = "v1" -> ret = "false" [] v = "v3" -> ret = "false" /\ proto # "file:" [] v = "v2" -> ret = "false" /\ ~(StartsWithDir(p, "lecturer") \/ StartsWithDir(p, "student")) /\ ~(\E i \in 1..Len(p) : p[i] = "initial-home") /\ proto # "file:" [] OTHER -> ret = "false" /\ ~(StartsWithDir(p, "lecturer") \/ StartsWithDir(p, "student")) /\ proto # "file:"

\* DOMContentLoaded handler after `await authManager.init()`
HandlerPost ==
    /\ hpc = "post"
    /\ hpc' = "done"
    /\ href' = IF handlerRedirects(variant, path, protocol, initRet) THEN loginPath(variant, path) ELSE href
    /\ UNCHANGED <<page, side, acct, form, loc, local, list, srv, refreshed, ui, urlParam, token, user, sess, TOKEN, initRet, bridge, timer, api, op>>
    /\ lastApiReq' = {}

(***************************************************************************)
(* apiCall: one frame per caller                                           *)
(***************************************************************************)
\* does attemptCall go on to /api/get_token after this response
attemptRefreshes(v, r) == v # "v1" /\ ~r.net /\ r.status = 401

\* the answer to the request of apiCall (attemptCall)
ApiResponse(c) ==
    /\ api[c].pc = "wait"
    /\ UNCHANGED <<page, side, acct, form, loc, local, list, srv, refreshed, ui, urlParam, TOKEN, hpc, initRet, bridge, timer, op>>
    /\ lastApiReq' = {}
    /\ \E r \in ApiResponses :
        IF attemptRefreshes(variant, r)
        THEN /\ api' = [api EXCEPT ![c].pc = "refresh", ![c].nTok = Inc(@), ![c].resp = r]
             /\ UNCHANGED <<token, user, sess, href>>
        ELSE IF ~r.net /\ r.status = 401
        THEN \* v1: this.logout('401 on ' + endpoint)
             /\ api' = [api EXCEPT ![c].pc = "done", ![c].result = AuthRequired, ![c].expired = TRUE, ![c].resp = r]
             /\ token' = NULL
             /\ user' = NullUser
             /\ sess' = NULL
             /\ href' = "/logout"
        ELSE /\ api' = [api EXCEPT ![c].pc = "done", ![c].result = settledResult(variant, r), ![c].resp = r]
             /\ UNCHANGED <<token, user, sess, href>>

\* the answer to the /api/get_token request of attemptCall
ApiRefreshResponse(c) ==
    /\ api[c].pc = "refresh"
    /\ UNCHANGED <<page, side, acct, form, loc, local, list, srv, ui, urlParam, user, href, TOKEN, hpc, initRet, bridge, timer, op>>
    /\ \E r \in TokenResponses :
        IF refreshOk(r)
        THEN /\ token' = r.body.token
             /\ refreshed' = r.body.token
             /\ sess' = ToStorage(r.body.token)
             /\ api' = [api EXCEPT ![c].pc = "wait", ![c].headers = attemptHeaders(@, r.body.token), ![c].nReq = Inc(@)]
             /\ lastApiReq' = {apiReq(api'[c].headers, sess')}
        ELSE /\ api' = [api EXCEPT ![c].pc = "done", ![c].result = SessionExpired, ![c].expired = TRUE]
             /\ UNCHANGED <<token, sess, refreshed>>
             /\ lastApiReq' = {}

(***************************************************************************)
(* Timers of init()                                                        *)
(***************************************************************************)
\* the setTimeout callback fires: v1 retries with the stored token after
\* 500ms, p2 re-checks /api/health after 250ms
TimerFire ==
    /\ timer.pc = "pending"
    /\ UNCHANGED <<page, side, acct, form, loc, local, list, srv, refreshed, ui, urlParam, user, sess, TOKEN, hpc, initRet, bridge, op>>
    /\ IF timer.kind = "recheck250"
       THEN /\ timer' = [timer EXCEPT !.pc = "health"]
            /\ UNCHANGED <<token, href, api>>
            /\ lastApiReq' = {}
       ELSE IF Truthy(sess)
       THEN /\ token' = sess
            /\ api' = [api EXCEPT !["timer"] = apiCallBegin(variant, "/profile/me", NoOptions, sess, sess)]
            /\ lastApiReq' = {apiReq(api'["timer"].headers, sess)}
            /\ timer' = [timer EXCEPT !.pc = "api"]
            /\ UNCHANGED href
       ELSE /\ href' = "/account"
            /\ timer' = [timer EXCEPT !.pc = "done"]
            /\ UNCHANGED <<token, api>>
            /\ lastApiReq' = {}

\* v1: the retry's apiCall for the profile has resolved
TimerProfile ==
    /\ timer.pc = "api"
    /\ api["timer"].pc = "done"
    /\ UNCHANGED <<page, side, acct, form, loc, local, list, srv, refreshed, ui, urlParam, TOKEN, hpc, initRet, bridge, op>>
    /\ lastApiReq' = {}
    /\ timer' = [timer EXCEPT !.pc = "done", !.ok = profileValid(api["timer"].result), !.expired = api["timer"].expired]
    /\ api' = [api EXCEPT !["timer"] = IdleFrame]
    /\ IF profileValid(api["timer"].result)
       THEN /\ user' = AsUser(api["timer"].result)
            /\ UNCHANGED <<token, sess, href>>
       ELSE /\ token' = NULL
            /\ user' = NullUser
            /\ sess' = NULL
            /\ href' = "/logout"

\* p2: the answer to the re-check of /api/health
RecheckResponse ==
    /\ timer.pc = "health"
    /\ UNCHANGED <<page, side, acct, form, loc, local, list, srv, refreshed, ui, urlParam, token, user, sess, TOKEN, hpc, initRet, bridge, api, op>>
    /\ lastApiReq' = {}
    /\ \E r \in HealthResponses :
        /\ timer' = [timer EXCEPT !.pc = "done", !.ok = healthOk(r)]
        /\ href' = IF healthOk(r) THEN href ELSE RoleLoginPath(path)

(***************************************************************************)
(* login and studentLogin: pure parts                                      *)
(***************************************************************************)
\* does login() take its success branch on this response
loginSucceeds(v, r) == IF v = "v2" THEN ~r.net /\ Ok(r) /\ r.body.kind = "obj" ELSE ~r.net /\ r.body.kind = "obj" /\ Ok(r) /\ Truthy(r.body.token)

\* safeFetch: throw new Error(`${res.status} ${txt}`)
safeFetchError(r) == <<StatusStr(r.status)>> \o RawText(r.body)

\* the error text of a failed login()
loginError(v, r) == IF r.net THEN FetchMsg ELSE IF v = "v2" /\ ~Ok(r) THEN safeFetchError(r) ELSE IF r.body.kind = "bad" THEN ParseMsg ELSE IF r.body.kind = "null" THEN NullMsg ELSE OrT(r.body.message, <<"Login failed">>)

\* the value login() returns
loginResult(v, r) == IF loginSucceeds(v, r) THEN [success |-> TRUE, error |-> UNDEFT, message |-> r.body.message] ELSE [success |-> FALSE, error |-> loginError(v, r), message |-> UNDEFT]

\* studentLogin of v2 and p2: result.error && result.error.includes('verify')
needsVerification(res) == ~res.success /\ TruthyT(res.error) /\ IncludesWord(res.error, "verify")

initialHome(p) == IF IncludesDir(p, "lecturer") THEN "/lecturer/initial-home" ELSE "/student/initial-home"

VerifyFirst == [success |-> FALSE, error |-> <<"Please verify your email first.">>, message |-> UNDEFT]

\* studentLogin of v1 and v3: POST /login_student
formLoginResult(r) == IF r.net THEN [success |-> FALSE, error |-> FetchMsg, message |-> UNDEFT] ELSE IF Ok(r) THEN [success |-> TRUE, error |-> UNDEFT, message |-> UNDEFT] ELSE [success |-> FALSE, error |-> RawText(r.body), message |-> UNDEFT]

(***************************************************************************)
(* Operations page scripts call once the handler has run                   *)
(***************************************************************************)
CanStart == hpc = "done" /\ href = "none" /\ op.pc = "idle" /\ op.n < MaxOps

StartOp(pc, kind) == [IdleOp EXCEPT !.pc = pc, !.kind = kind, !.n = op.n + 1]

\* authManager.apiCall('/classes', options)
CallApiCall ==
    /\ CanStart
    /\ UNCHANGED <<page, side, acct, form, loc, local, list, srv, refreshed, ui, urlParam, user, sess, href, TOKEN, hpc, initRet, bridge, timer>>
    /\ \E options \in OptionsSet :
        /\ api' = [api EXCEPT !["page"] = apiCallBegin(variant, "/classes", options, token, sess)]
        /\ token' = currentToken(variant, token, sess)
        /\ lastApiReq' = {apiReq(api'["page"].headers, sess)}
        /\ op' = StartOp("apiCall", "apiCall")

\* the apiCall of the page has resolved
ApiCallReturn ==
    /\ op.pc = "apiCall"
    /\ api["page"].pc = "done"
    /\ op' = [op EXCEPT !.pc = "idle", !.data = api["page"].result, !.expired = api["page"].expired]
    /\ api' = [api EXCEPT !["page"] = IdleFrame]
    /\ UNCHANGED <<page, side, acct, form, loc, local, list, srv, refreshed, ui, urlParam, token, user, sess, href, TOKEN, hpc, initRet, bridge, timer>>
    /\ lastApiReq' = {}

\* authManager.login(credentials) or authManager.studentLogin(credentials)
CallLogin ==
    /\ CanStart
    /\ \E student \in BOOLEAN : op' = [StartOp("login", "login") EXCEPT !.student = student]
    /\ UNCHANGED <<page, side, acct, form, loc, local, list, srv, refreshed, ui, urlParam, token, user, sess, href, TOKEN, hpc, initRet, bridge, timer, api>>
    /\ lastApiReq' = {}

\* the answer to the login request
LoginResponse ==
    /\ op.pc = "login"
    /\ UNCHANGED <<page, side, acct, form, loc, local, list, srv, refreshed, ui, urlParam, TOKEN, hpc, initRet, bridge, timer, api>>
    /\ lastApiReq' = {}
    /\ \E r \in LoginResponses :
        IF op.student /\ variant \in {"v1", "v3"}
        THEN /\ op' = [op EXCEPT !.pc = "idle", !.resp = r, !.login = formLoginResult(r)]
             /\ href' = IF formLoginResult(r).success THEN "reload" ELSE href
             /\ UNCHANGED <<token, user, sess>>
        ELSE IF loginSucceeds(variant, r)
        THEN /\ token' = r.body.token
             /\ user' = r.body.user
             /\ sess' = ToStorage(r.body.token)
             /\ href' = ToStorage(r.body.redirect_url)
             /\ op' = [op EXCEPT !.pc = "idle", !.resp = r, !.login = loginResult(variant, r)]
        ELSE /\ UNCHANGED <<token, user, sess>>
             /\ IF op.student /\ needsVerification(loginResult(variant, r))
                THEN /\ href' = initialHome(path)
                     /\ op' = [op EXCEPT !.pc = "idle", !.resp = r, !.login = VerifyFirst]
                ELSE /\ href' = href
                     /\ op' = [op EXCEPT !.pc = "idle", !.resp = r, !.login = loginResult(variant, r)]

\* does register() take its success branch on this response
registerSucceeds(v, r) == IF v \in {"v1", "v3"} THEN ~r.net /\ r.body.kind = "obj" /\ Ok(r) /\ Truthy(r.body.token) ELSE ~r.net /\ Ok(r) /\ r.body.kind = "obj"

\* does register() capture data.token (v2 and p2: 'No token on register')
registerStoresToken(v) == v \in {"v1", "v3"}

\* the error text of a failed register()
registerError(v, r) == IF r.net THEN FetchMsg ELSE IF v = "v2" /\ ~Ok(r) THEN safeFetchError(r) ELSE IF r.body.kind = "bad" THEN ParseMsg ELSE IF r.body.kind = "null" THEN NullMsg ELSE OrT(r.body.error, <<"Registration failed">>)

\* the value register() returns
registerResult(v, r) == IF registerSucceeds(v, r) THEN [success |-> TRUE, error |-> UNDEFT, message |-> IF registerStoresToken(v) THEN r.body.message ELSE OrT(r.body.message, <<"Registration successful. Please verify your email.">>)] ELSE [success |-> FALSE, error |-> registerError(v, r), message |-> UNDEFT]

\* where a successful register() navigates to
registerTarget(v, r) == IF registerStoresToken(v) THEN ToStorage(r.body.redirect_url) ELSE IF Truthy(r.body.redirect_url) THEN r.body.redirect_url ELSE "/account"

\* authManager.register(userData)
CallRegister ==
    /\ CanStart
    /\ op' = StartOp("register", "register")
    /\ UNCHANGED <<page, side, acct, form, loc, local, list, srv, refreshed, ui, urlParam, token, user, sess, href, TOKEN, hpc, initRet, bridge, timer, api>>
    /\ lastApiReq' = {}

\* the answer to the register request
RegisterResponse ==
    /\ op.pc = "register"
    /\ UNCHANGED <<page, side, acct, form, loc, local, list, srv, refreshed, ui, urlParam, TOKEN, hpc, initRet, bridge, timer, api>>
    /\ lastApiReq' = {}
    /\ \E r \in LoginResponses :
        /\ op' = [op EXCEPT !.pc = "idle", !.resp = r, !.login = registerResult(variant, r)]
        /\ IF registerSucceeds(variant, r)
           THEN /\ href' = registerTarget(variant, r)
                /\ IF registerStoresToken(variant)
                   THEN token' = r.body.token /\ user' = r.body.user /\ sess' = ToStorage(r.body.token)
                   ELSE UNCHANGED <<token, user, sess>>
           ELSE UNCHANGED <<token, user, sess, href>>

(***************************************************************************)
(* resetPassword(token, role, password, confirmPassword) of the safeFetch  *)
(* copy of AuthManager                                                     *)
(***************************************************************************)
Passwords == {"pw1", "pw2"}
PasswordsDiffer == [success |-> FALSE, error |-> <<"Passwords do not match">>, message |-> UNDEFT]
\* what POST /api/reset-password may answer
ResetResponses == LoginResponses \cup {Resp(200, BadBody)}

\* mutant of resetLogsOut: logout() is called whatever the answer is
resetLogsOut_always(r) == TRUE

\* safeFetch resolved with parsed JSON: resetPassword goes on to this.logout()
resetLogsOut(r) == ~r.net /\ Ok(r) /\ r.body.kind # "bad"

\* the value resetPassword returns once the request is settled
resetResult(r) == IF r.net THEN [success |-> FALSE, error |-> FetchMsg, message |-> UNDEFT] ELSE IF ~Ok(r) THEN [success |-> FALSE, error |-> safeFetchError(r), message |-> UNDEFT] ELSE IF r.body.kind = "bad" THEN [success |-> FALSE, error |-> ParseMsg, message |-> UNDEFT] ELSE IF r.body.kind = "null" THEN [success |-> FALSE, error |-> NullMsg, message |-> UNDEFT] ELSE [success |-> TRUE, error |-> UNDEFT, message |-> OrT(r.body.message, <<"Password reset successful. Please log in.">>)]

\* authManager.resetPassword(token, role, password, confirmPassword)
CallResetPassword ==
    /\ CanStart
    /\ variant = "v2"
    /\ \E password, confirmPassword \in Passwords :
        op' = IF password # confirmPassword THEN [StartOp("idle", "resetPassword") EXCEPT !.login = PasswordsDiffer] ELSE StartOp("reset", "resetPassword")
    /\ UNCHANGED <<page, side, acct, form, loc, local, list, srv, refreshed, ui, urlParam, token, user, sess, href, TOKEN, hpc, initRet, bridge, timer, api>>
    /\ lastApiReq' = {}

\* the answer to POST /api/reset-password
ResetResponse ==
    /\ op.pc = "reset"
    /\ UNCHANGED <<page, side, acct, form, loc, local, list, srv, refreshed, ui, urlParam, TOKEN, hpc, initRet, bridge, timer, api>>
    /\ lastApiReq' = {}
    /\ \E r \in ResetResponses :
        /\ op' = [op EXCEPT !.pc = "idle", !.resp = r, !.login = resetResult(r)]
        /\ IF resetLogsOut(r)
           THEN /\ token' = NULL
                /\ user' = NullUser
                /\ sess' = NULL
                /\ href' = "/logout"
           ELSE UNCHANGED <<token, user, sess, href>>

\* authManager.logout()
CallLogout ==
    /\ CanStart
    /\ token' = NULL
    /\ user' = NullUser
    /\ sess' = NULL
    /\ href' = "/logout"
    /\ op' = StartOp("idle", "logout")
    /\ UNCHANGED <<page, side, acct, form, loc, local, list, srv, refreshed, ui, urlParam, TOKEN, hpc, initRet, bridge, timer, api>>
    /\ lastApiReq' = {}

\* authManager.getToken()
CallGetToken ==
    /\ CanStart
    /\ token' = getToken(token, sess)
    /\ op' = StartOp("idle", "getToken")
    /\ UNCHANGED <<page, side, acct, form, loc, local, list, srv, refreshed, ui, urlParam, user, sess, href, TOKEN, hpc, initRet, bridge, timer, api>>
    /\ lastApiReq' = {}

\* window.apiCall(path, options) of the configuration script
CallWindowApiCall ==
    /\ CanStart
    /\ \E options \in OptionsSet :
        /\ lastApiReq' = {windowReq(windowApiCallHeaders(sess, options), sess)}
        /\ op' = StartOp("windowApi", "window.apiCall")
    /\ UNCHANGED <<page, side, acct, form, loc, local, list, srv, refreshed, ui, urlParam, token, user, sess, href, TOKEN, hpc, initRet, bridge, timer, api>>

\* the answer to window.apiCall: a non-ok response or a failure rejects
WindowApiResponse ==
    /\ op.pc = "windowApi"
    /\ \E r \in ApiResponses :
        op' = [op EXCEPT !.pc = "idle", !.rejected = (r.net \/ ~Ok(r) \/ r.body.kind = "bad"), !.data = IF r.net \/ ~Ok(r) \/ r.body.kind = "bad" THEN EmptyBody ELSE r.body]
    /\ UNCHANGED <<page, side, acct, form, loc, local, list, srv, refreshed, ui, urlParam, token, user, sess, href, TOKEN, hpc, initRet, bridge, timer, api>>
    /\ lastApiReq' = {}

(***************************************************************************)
(* student_class.js: the join form                                         *)
(***************************************************************************)
DecimalDigits == {"0", "1", "2", "3", "4", "5", "6", "7", "8", "9"}

\* String.prototype.trim on a sequence of characters
RECURSIVE TrimLeft(_)
TrimLeft(s) == IF s # <<>> /\ Head(s) = " " THEN TrimLeft(Tail(s)) ELSE s
RECURSIVE TrimRight(_)
TrimRight(s) == IF s # <<>> /\ s[Len(s)] = " " THEN TrimRight(SubSeq(s, 1, Len(s) - 1)) ELSE s
Trim(s) == TrimRight(TrimLeft(s))

\* mutant of matchesPin: only the length is checked
matchesPin_lengthOnly(s) == Len(s) \in 4..6

\* joinPin.match(/^\d{4,6}$/)
matchesPin(s) == \E n \in 4..6 : Len(s) = n /\ \A i \in 1..n : s[i] \in DecimalDigits

\* loadClasses: res.error is read (null throws) and, if falsy, classes = res
listLoads(res) == res.kind = "obj" /\ ~TruthyT(res.error)

\* the join handler takes its success branch on this result of api()
joinSucceeds(res) == res.kind = "obj" /\ ~TruthyT(res.error)

\* the listeners of student_class.js are registered only with a TOKEN
Listening == script = "student_class" /\ hpc # "start" /\ Truthy(TOKEN)

\* what the user may have typed into the joinPin field
Digs(k) == [i \in 1..k |-> IF i % 2 = 1 THEN "0" ELSE "9"]
PinInputs == {Digs(k) : k \in {0, 3, 4, 6, MaxPinLen}} \cup {[Digs(4) EXCEPT ![1] = "x"], [Digs(6) EXCEPT ![6] = "x"], [Digs(5) EXCEPT ![3] = " "], [Digs(6) EXCEPT ![1] = " "]} \cup {<<" ">> \o Digs(k) \o <<" ">> : k \in {3, 5}}

\* joinBtn click
OpenModal ==
    /\ CanStart /\ Listening /\ ui.modal = "none"
    /\ ui' = [ui EXCEPT !.modal = "flex"]
    /\ op' = StartOp("idle", "openModal")
    /\ UNCHANGED <<page, side, acct, form, loc, local, list, srv, refreshed, urlParam, token, user, sess, href, TOKEN, hpc, initRet, bridge, timer, api>>
    /\ lastApiReq' = {}

\* closeModal / cancelJoin click, or a click on the backdrop
CloseModal ==
    /\ CanStart /\ Listening /\ ui.modal = "flex"
    /\ ui' = [ui EXCEPT !.modal = "none"]
    /\ op' = StartOp("idle", "closeModal")
    /\ UNCHANGED <<page, side, acct, form, loc, local, list, srv, refreshed, urlParam, token, user, sess, href, TOKEN, hpc, initRet, bridge, timer, api>>
    /\ lastApiReq' = {}

\* the join form is submitted with `raw` in its joinPin field
SubmitJoin ==
    /\ CanStart /\ Listening
    /\ UNCHANGED <<page, side, acct, form, loc, local, list, srv, refreshed, urlParam, token, user, sess, href, TOKEN, hpc, initRet, bridge, timer, api>>
    /\ \E raw \in PinInputs :
        IF matchesPin(Trim(raw))
        THEN /\ ui' = [ui EXCEPT !.joinPin = raw, !.nPost = 1, !.join_pin = Trim(raw)]
             /\ lastApiReq' = {pageReq(pageApiHeaders(TOKEN, NoOptions), sess)}
             /\ op' = StartOp("join", "join")
        ELSE /\ ui' = [ui EXCEPT !.joinPin = raw, !.nPost = 0, !.join_pin = NoPin]
             /\ lastApiReq' = {}
             /\ op' = StartOp("idle", "join")

\* the answer to POST /api/classes/join
JoinResponse ==
    /\ op.pc = "join"
    /\ UNCHANGED <<page, side, acct, form, loc, local, list, srv, refreshed, urlParam, token, user, sess, href, TOKEN, hpc, initRet, bridge, timer, api>>
    /\ \E r \in ApiResponses :
        IF joinSucceeds(pageApiResult(script, r))
        THEN /\ ui' = [ui EXCEPT !.modal = "none", !.joinPin = NoPin, !.nPost = 0, !.join_pin = NoPin]
             /\ op' = [op EXCEPT !.pc = "pageApi", !.kind = "loadClasses", !.data = pageApiResult(script, r)]
             /\ lastApiReq' = {pageReq(pageApiHeaders(TOKEN, NoOptions), sess)}
        ELSE /\ ui' = [ui EXCEPT !.nPost = 0, !.join_pin = NoPin]
             /\ op' = [op EXCEPT !.pc = "idle", !.data = pageApiResult(script, r)]
             /\ lastApiReq' = {}

\* api(path, options) of a class page
CallPageApi ==
    /\ CanStart
    /\ script # "none"
    /\ \E options \in OptionsSet :
        /\ lastApiReq' = {pageReq(pageApiHeaders(TOKEN, options), sess)}
        /\ op' = StartOp("pageApi", "api")
    /\ UNCHANGED <<page, side, acct, form, loc, local, list, srv, refreshed, ui, urlParam, token, user, sess, href, TOKEN, hpc, initRet, bridge, timer, api>>

\* the answer to api() of a class page
PageApiResponse ==
    /\ op.pc = "pageApi"
    /\ \E r \in ApiResponses :
        /\ op' = [op EXCEPT !.pc = "idle", !.data = pageApiResult(script, r)]
        /\ ui' = IF script = "student_class" /\ op.kind = "loadClasses" /\ listLoads(pageApiResult(script, r)) THEN [ui EXCEPT !.classes = pageApiResult(script, r).id] ELSE ui
    /\ UNCHANGED <<page, side, acct, form, loc, local, list, srv, refreshed, urlParam, token, user, sess, href, TOKEN, hpc, initRet, bridge, timer, api>>
    /\ lastApiReq' = {}

(***************************************************************************)
(* Attendance server                                                       *)
(***************************************************************************)
Distance(a, b) == IF a >= b THEN a - b ELSE b - a

\* expires_at has passed
expired(session, now) == now > session.expires_at

\* mutant of withinRadius: the geofence is not checked
withinRadius_always(session, pos) == TRUE

\* the student's position is within radius_m of the lecturer's position
withinRadius(session, pos) == Distance(session.lecturer_pos, pos) <= session.radius_m

\* mutant of markAccepted: expiry and is_open are not checked
markAccepted_ignoresWindow(session, now, pos, pin) == session.exists /\ (session.method = "geo" => withinRadius(session, pos)) /\ (session.method = "pin" => pin = session.pin_code)

\* does the server accept a mark for this session
markAccepted(session, now, pos, pin) == session.exists /\ session.is_open /\ ~expired(session, now) /\ (session.method = "geo" => withinRadius(session, pos)) /\ (session.method = "pin" => pin = session.pin_code)

Present(sid, student) == [session_id |-> sid, student_id |-> student, status |-> "present"]

\* the browser plays no part in the attendance server's steps
ClientIdle == UNCHANGED <<side, acct, form, loc, list, local, variant, path, protocol, script, urlParam, token, user, sess, href, TOKEN, hpc, initRet, bridge, timer, api, op, lastApiReq, ui, refreshed>>

\* a lecturer opens an attendance session
CreateSession ==
    /\ ClientIdle
    /\ \E sid \in SessionIds, method \in {"geo", "pin"}, d \in Durations, place \in LecturerPlaces, radius \in Radii, pin \in SessionPins :
        /\ ~srv.sessions[sid].exists
        /\ srv' = [srv EXCEPT !.mark = NoMark, !.sessions[sid] = [exists |-> TRUE, method |-> method, pin_code |-> IF method = "pin" THEN pin ELSE "", lecturer_pos |-> IF method = "geo" THEN place ELSE 0, radius_m |-> IF method = "geo" THEN radius ELSE 0, expires_at |-> srv.now + d, is_open |-> TRUE]]

\* a lecturer closes an attendance session
CloseSession ==
    /\ ClientIdle
    /\ \E sid \in SessionIds :
        /\ srv.sessions[sid].exists /\ srv.sessions[sid].is_open
        /\ srv' = [srv EXCEPT !.mark = NoMark, !.sessions[sid].is_open = FALSE]

\* time passes
Tick ==
    /\ ClientIdle
    /\ srv.now < MaxTime
    /\ srv' = [srv EXCEPT !.mark = NoMark, !.now = @ + 1]

\* POST /api/attendance/mark
MarkAttendance ==
    /\ ClientIdle
    /\ \E student \in Students, sid \in SessionIds, pos \in Places, pin \in PinCodes :
        LET session == srv.sessions[sid]
            geoPos == IF session.method = "geo" THEN pos ELSE 0
            pinCode == IF session.method = "pin" THEN pin ELSE ""
            accepted == markAccepted(session, srv.now, geoPos, pinCode)
        IN srv' = [srv EXCEPT !.mark = [student_id |-> student, session_id |-> sid, pos |-> geoPos, pin |-> pinCode, accepted |-> accepted],
                              !.records = IF accepted THEN @ \cup {Present(sid, student)} ELSE @]

NextAttendance ==
    \/ CreateSession
    \/ CloseSession
    \/ Tick
    \/ MarkAttendance

\* the attendance server next to a loaded student page
InitAttendance ==
    /\ variant = "p2" /\ path = <<"student", "classes">> /\ protocol = "http:" /\ script = "student_class"
    /\ urlParam = NULL /\ sess = "T1" /\ token = "T1" /\ user = U1 /\ href = "none"
    /\ hpc = "done" /\ initRet = "true" /\ bridge = NoBridge /\ timer = NoTimer
    /\ api = [c \in Callers |-> IdleFrame] /\ op = IdleOp /\ TOKEN = "T1" /\ lastApiReq = {}
    /\ ui = InitUi /\ srv = InitSrv /\ refreshed = NULL /\ local = InitLocal /\ list = InitList /\ side = InitSide /\ acct = InitAcct /\ form = InitForm /\ loc = InitLoc

AttendanceSpec == InitAttendance /\ [][NextAttendance]_vars

(***************************************************************************)
(* The 'generate PIN' button of the lecturer's class form                  *)
(***************************************************************************)
\* Math.floor(a * num / den), evaluated without leaving 32 bits
FloorMulDiv(a, num, den) == (a \div den) * num + ((a % den) * num) \div den

\* values of Math.random(), as fractions in [0, 1)
RandomValues == {[num |-> k, den |-> RandomSteps] : k \in 0..(RandomSteps - 1)} \cup {[num |-> k, den |-> 900000] : k \in {0, 1, 450000, 899998, 899999}}

\* mutant of generatePin: the offset is forgotten
generatePin_noOffset(r) == FloorMulDiv(900000, r.num, r.den)

\* Math.floor(100000 + Math.random() * 900000)
generatePin(r) == 100000 + FloorMulDiv(900000, r.num, r.den)

\* String(n) of a non-negative integer, as the assignment to .value does
DigitChars == <<"0", "1", "2", "3", "4", "5", "6", "7", "8", "9">>
RECURSIVE NumberToString(_)
NumberToString(n) == IF n < 10 THEN <<DigitChars[n + 1]>> ELSE NumberToString(n \div 10) \o <<DigitChars[(n % 10) + 1]>>

\* generatePin click: form.joinPin.value = Math.floor(...)
GeneratePin ==
    /\ script = "lecturer_class" /\ hpc = "done" /\ href = "none"
    /\ \E r \in RandomValues : ui' = [ui EXCEPT !.joinPin = NumberToString(generatePin(r))]
    /\ UNCHANGED <<page, side, acct, form, loc, local, list, srv, refreshed, urlParam, token, user, sess, href, TOKEN, hpc, initRet, bridge, timer, api, op, lastApiReq>>

\* a loaded lecturer class page
InitPin ==
    /\ variant = "p2" /\ path = <<"lecturer", "dashboard">> /\ protocol = "http:" /\ script = "lecturer_class"
    /\ urlParam = NULL /\ sess = "T1" /\ token = "T1" /\ user = U2 /\ href = "none"
    /\ hpc = "done" /\ initRet = "true" /\ bridge = NoBridge /\ timer = NoTimer
    /\ api = [c \in Callers |-> IdleFrame] /\ op = IdleOp /\ TOKEN = "T1" /\ lastApiReq = {}
    /\ ui = InitUi /\ srv = InitSrv /\ refreshed = NULL /\ local = InitLocal /\ list = InitList /\ side = InitSide /\ acct = InitAcct /\ form = InitForm /\ loc = InitLoc

NextPin == GeneratePin

PinSpec == InitPin /\ [][NextPin]_vars

(***************************************************************************)
(* isAuthenticated() and hasRole(role) of AuthManager                      *)
(***************************************************************************)
Roles == {"student", "lecturer"}

\* this.user !== null && this.token !== null
isAuthenticated == user.kind # "null" /\ token # NULL

\* this.user && this.user.role === role, as a truth value
hasRole(role) == user.kind = "obj" /\ user.role = role

(***************************************************************************)
(* The class list page and the class page over localStorage                *)
(***************************************************************************)
\* the steps of these pages touch neither the AuthManager nor the server
LocalOnly == UNCHANGED <<side, acct, form, loc, list, variant, path, protocol, script, urlParam, token, user, sess, href, TOKEN, hpc, initRet, bridge, timer, api, op, lastApiReq, ui, srv, refreshed>>

\* arr.splice(index, 1)
Splice(arr, index) == IF index < Len(arr) THEN SubSeq(arr, 1, index) \o SubSeq(arr, index + 2, Len(arr)) ELSE arr

\* arr[index], NoClass where the code reads undefined
ClassAt(arr, index) == IF index \in 0..(Len(arr) - 1) THEN arr[index + 1] ELSE NoClass

\* DOMContentLoaded of the list page in tab t: load and render the list
LoadListPage(t) ==
    /\ ~local.loaded[t]
    /\ local' = [local EXCEPT !.mem[t] = local.classes, !.rendered[t] = local.classes, !.loaded[t] = TRUE, !.by = t]
    /\ LocalOnly

\* submit of the class form in tab t: push on the page's list, store it,
\* displayClasses()
SubmitClass(t) ==
    /\ local.loaded[t]
    /\ local.created < MaxClasses
    /\ LET classData == local.created + 1
           pushed == Append(local.mem[t], classData)
       IN local' = [local EXCEPT !.classes = pushed, !.mem[t] = pushed, !.rendered[t] = pushed, !.created = classData, !.by = t]
    /\ LocalOnly

\* click on the delete button of row index in tab t: deleteClass(index)
DeleteClass(t, index) ==
    /\ local.loaded[t]
    /\ index \in 0..(Len(local.rendered[t]) - 1)
    /\ LET spliced == Splice(local.classes, index)
       IN local' = [local EXCEPT !.classes = spliced, !.mem[t] = spliced, !.rendered[t] = spliced, !.deleted = @ \cup {local.rendered[t][index + 1]}, !.by = t]
    /\ LocalOnly

\* the index the class page works with: ?index= or 'lastClassIndex'
pageIndex(param) == IF param = NoIndex THEN local.lastClassIndex ELSE param

\* DOMContentLoaded of the class page opened with ?index=param (or without)
OpenClassPage(param) ==
    /\ IF ClassAt(local.classes, pageIndex(param)) = NoClass
       THEN UNCHANGED local
       ELSE local' = [local EXCEPT !.lastClassIndex = pageIndex(param), !.lastFor = ClassAt(local.classes, pageIndex(param))]
    /\ LocalOnly

\* the attendance page of the class at index stores its records under
\* 'attendanceRecords_<index>'
SaveAttendance(index) ==
    /\ ClassAt(local.classes, index) # NoClass
    /\ local' = [local EXCEPT !.records[index] = ClassAt(local.classes, index)]
    /\ LocalOnly

NextLocal ==
    \/ \E t \in Tabs : LoadListPage(t)
    \/ \E t \in Tabs : SubmitClass(t)
    \/ \E t \in Tabs, index \in 0..(MaxClasses - 1) : DeleteClass(t, index)
    \/ \E param \in {NoIndex} \cup 0..(MaxClasses - 1) : OpenClassPage(param)
    \/ \E index \in 0..(MaxClasses - 1) : SaveAttendance(index)

InitLocalPages ==
    /\ variant = "p2" /\ path = <<"lecturer", "dashboard">> /\ protocol = "http:" /\ script = "lecturer_class"
    /\ urlParam = NULL /\ sess = "T1" /\ token = "T1" /\ user = U2 /\ href = "none"
    /\ hpc = "done" /\ initRet = "true" /\ bridge = NoBridge /\ timer = NoTimer
    /\ api = [c \in Callers |-> IdleFrame] /\ op = IdleOp /\ TOKEN = "T1" /\ lastApiReq = {}
    /\ ui = InitUi /\ srv = InitSrv /\ refreshed = NULL
    /\ local = InitLocal /\ list = InitList /\ side = InitSide /\ acct = InitAcct /\ form = InitForm /\ loc = InitLoc

LocalSpec == InitLocalPages /\ [][NextLocal]_vars

(***************************************************************************)
(* loadClasses(), renderClasses() and the leave handler of student_class.js*)
(***************************************************************************)
ListOnly == UNCHANGED <<side, acct, form, loc, local, variant, path, protocol, script, urlParam, token, user, sess, href, TOKEN, hpc, initRet, bridge, timer, api, op, lastApiReq, ui, srv, refreshed>>

\* requests issued so far, answered or not
Requests == list.issued + list.joins + list.leaves

\* loadClasses() up to its await: one more GET /api/classes in flight
loadClasses(l) == [l EXCEPT !.issued = @ + 1, !.flying = @ \cup {l.issued + 1}]

\* the initial loadClasses() of the DOMContentLoaded handler
InitialLoad ==
    /\ list.issued = 0
    /\ list' = loadClasses(list)
    /\ ListOnly

\* the answer to the k-th GET arrives: loadClasses() after its await
GetAnswer(k) ==
    /\ k \in list.flying
    /\ \E res \in GetAnswers :
        list' = IF res.error
                THEN [list EXCEPT !.flying = @ \ {k}, !.got[k] = res]
                ELSE [list EXCEPT !.flying = @ \ {k}, !.got[k] = res, !.classes = res.list, !.rows = res.list]
    /\ ListOnly

\* submit of the join form with a well-formed PIN: POST /api/classes/join
JoinSubmit ==
    /\ list.issued > 0
    /\ Requests < MaxLoads
    /\ list' = [list EXCEPT !.joins = @ + 1]
    /\ ListOnly

\* the answer to a join request; without error the list is loaded again
JoinAnswer ==
    /\ list.joins > 0
    /\ \E error \in BOOLEAN :
        list' = IF error THEN [list EXCEPT !.joins = @ - 1] ELSE loadClasses([list EXCEPT !.joins = @ - 1])
    /\ ListOnly

\* confirmed click on the delete button of row index: DELETE
\* /api/classes/<classes[index].id>/leave
LeaveClick(index) ==
    /\ index \in 0..(Len(list.rows) - 1)
    /\ Requests < MaxLoads
    /\ list' = [list EXCEPT !.leaves = @ + 1, !.leave = [sent |-> list.classes[index + 1], shown |-> list.rows[index + 1]]]
    /\ ListOnly

\* the answer to a leave request; without error the list is loaded again
LeaveAnswer ==
    /\ list.leaves > 0
    /\ \E error \in BOOLEAN :
        list' = IF error THEN [list EXCEPT !.leaves = @ - 1] ELSE loadClasses([list EXCEPT !.leaves = @ - 1])
    /\ ListOnly

NextList ==
    \/ InitialLoad
    \/ \E k \in 1..MaxLoads : GetAnswer(k)
    \/ JoinSubmit
    \/ JoinAnswer
    \/ \E index \in 0..1 : LeaveClick(index)
    \/ LeaveAnswer

InitListPage ==
    /\ variant = "p2" /\ path = <<"student", "classes">> /\ protocol = "http:" /\ script = "student_class"
    /\ urlParam = NULL /\ sess = "T1" /\ token = "T1" /\ user = U1 /\ href = "none"
    /\ hpc = "done" /\ initRet = "true" /\ bridge = NoBridge /\ timer = NoTimer
    /\ api = [c \in Callers |-> IdleFrame] /\ op = IdleOp /\ TOKEN = "T1" /\ lastApiReq = {}
    /\ ui = InitUi /\ srv = InitSrv /\ refreshed = NULL
    /\ local = InitLocal /\ list = InitList /\ side = InitSide /\ acct = InitAcct /\ form = InitForm /\ loc = InitLoc

ListSpec == InitListPage /\ [][NextList]_vars

(***************************************************************************)
(* Page loads with a query string: init() and the DOMContentLoaded handler *)
(* of the copies of AuthManager that read auth_token (v2 and p2)           *)
(***************************************************************************)
\* the query strings of at most MaxParams parameters
UrlSearches == UNION {[1..n -> RawParams] : n \in 0..MaxParams}

InitUrl ==
    /\ variant \in {"v2", "p2"}
    /\ path \in Paths
    /\ protocol \in {"http:", "file:"}
    /\ script = "none"
    /\ loc \in {[InitLoc EXCEPT !.search = search] : search \in UrlSearches}
    /\ urlParam = authTokenParam(loc.search)
    /\ sess \in {NULL, "T1"}
    /\ token = NULL /\ user = NullUser /\ href = "none"
    /\ hpc = "start" /\ initRet = "none" /\ bridge = NoBridge /\ timer = NoTimer
    /\ api = [c \in Callers |-> IdleFrame] /\ op = IdleOp /\ TOKEN = NULL /\ lastApiReq = {}
    /\ ui = InitUi /\ srv = InitSrv /\ refreshed = NULL
    /\ local = InitLocal /\ list = InitList /\ side = InitSide /\ acct = InitAcct /\ form = InitForm

NextUrl ==
    \/ DOMContentLoaded
    \/ HealthResponse
    \/ TokenResponse
    \/ InitProfile
    \/ HandlerPost
    \/ \E c \in {"init", "timer"} : ApiResponse(c)
    \/ \E c \in {"init", "timer"} : ApiRefreshResponse(c)
    \/ TimerFire
    \/ RecheckResponse

UrlSpec == InitUrl /\ [][NextUrl]_vars

(***************************************************************************)
(* validatePassword(passwordElId, feedbackId)                              *)
(***************************************************************************)
FormOnly == UNCHANGED <<side, acct, loc, list, local, variant, path, protocol, script, urlParam, token, user, sess, href, TOKEN, hpc, initRet, bridge, timer, api, op, lastApiReq, ui, srv, refreshed>>

UpperChars == {"A", "Z"}
LowerChars == {"a", "z"}
\* the characters of /[!@#$%^&*(),.?":{}|<>]/
SpecialChars == {"!", "@", "#", "$", "%", "^", "&", "*", "(", ")", ",", ".", "?", "\"", ":", "{", "}", "|", "<", ">"}
\* one character of each kind, and two that no rule counts
CharKinds == <<"A", "z", "7", "?", "-", "_">>

\* regex.test(pwd) for a character class
HasChar(pwd, class) == \E i \in 1..Len(pwd) : pwd[i] \in class

\* the rules pwd meets
RulesMet(pwd) == (IF Len(pwd) >= 8 THEN {"length"} ELSE {}) \cup (IF HasChar(pwd, UpperChars) THEN {"uppercase"} ELSE {}) \cup (IF HasChar(pwd, LowerChars) THEN {"lowercase"} ELSE {}) \cup (IF HasChar(pwd, DecimalDigits) THEN {"number"} ELSE {}) \cup (IF HasChar(pwd, SpecialChars) THEN {"special"} ELSE {})

\* score after the rule checks, which run only inside `if (feedback)`
score(feedback, pwd) == IF feedback THEN Cardinality(RulesMet(pwd)) ELSE 0

\* (score / rules) * 100
percentage(n) == (n * 100) \div 5

\* the text of the strength meter
strengthText(n) == IF percentage(n) < 40 THEN "Weak" ELSE IF percentage(n) < 80 THEN "Medium" ELSE "Strong"

\* the password made of the chosen kinds of character, repeated to length n
Typed(kinds, n) == [i \in 1..n |-> kinds[((i - 1) % Len(kinds)) + 1]]
\* the choices of kinds: a run of CharKinds from position a to position b
KindRuns == {SubSeq(CharKinds, a, b) : a \in 1..Len(CharKinds), b \in 1..Len(CharKinds)} \ {<<>>}
PwInputs == {<<>>} \cup {Typed(kinds, n) : kinds \in KindRuns, n \in {1, 3, 7, 8, MaxPwLen}}

\* validatePassword() with the default element ids, on the form f
validatePassword(f) ==
    IF ~f.passwordEl
    THEN [f EXCEPT !.ret = "undefined"]
    ELSE [f EXCEPT !.ret = IF score(f.feedback, f.pwd) >= 3 THEN "true" ELSE "false",
                   !.marks = IF f.feedback /\ f.checks THEN RulesMet(f.pwd) ELSE f.marks,
                   !.text = IF f.feedback /\ f.meter THEN strengthText(score(f.feedback, f.pwd)) ELSE f.text,
                   !.display = IF ~f.feedback THEN f.display ELSE IF f.pwd # <<>> THEN "block" ELSE "none"]

\* a page script calls validatePassword()
CallValidatePassword ==
    /\ form' = validatePassword(form)
    /\ FormOnly

\* the user edits the password input: its oninput handler validates the
\* new value
PasswordInput ==
    /\ form.passwordEl
    /\ \E pwd \in PwInputs : form' = validatePassword([form EXCEPT !.pwd = pwd])
    /\ FormOnly

NextForm == CallValidatePassword \/ PasswordInput

InitFormPage ==
    /\ variant = "v2" /\ path = <<"account">> /\ protocol = "http:" /\ script = "none"
    /\ urlParam = NULL /\ sess = NULL /\ token = NULL /\ user = NullUser /\ href = "none"
    /\ hpc = "done" /\ initRet = "skipped" /\ bridge = NoBridge /\ timer = NoTimer
    /\ api = [c \in Callers |-> IdleFrame] /\ op = IdleOp /\ TOKEN = NULL /\ lastApiReq = {}
    /\ ui = InitUi /\ srv = InitSrv /\ refreshed = NULL
    /\ local = InitLocal /\ list = InitList /\ side = InitSide /\ acct = InitAcct /\ loc = InitLoc
    /\ \E passwordEl, feedback, checks, meter \in BOOLEAN : \E pwd \in PwInputs :
        /\ (~passwordEl => pwd = <<>>)
        /\ (~feedback => ~checks /\ ~meter)
        /\ form = [InitForm EXCEPT !.passwordEl = passwordEl, !.feedback = feedback, !.checks = checks, !.meter = meter, !.pwd = pwd]

FormSpec == InitFormPage /\ [][NextForm]_vars

(***************************************************************************)
(* The account page: role links and the verify_token handler               *)
(***************************************************************************)
AccountOnly == UNCHANGED <<side, form, loc, list, local, variant, path, protocol, script, urlParam, token, user, sess, href, TOKEN, hpc, initRet, bridge, timer, api, op, lastApiReq, ui, srv, refreshed>>

\* the methods of class AuthManager: the properties of its prototype, which
\* the instance window.authManager has
Methods(v) == {"init", "register", "login", "studentLogin", "logout", "isAuthenticated", "getCurrentUser", "getToken", "hasRole", "apiCall"} \cup (IF v = "v2" THEN {"forgotPassword", "resetPassword"} ELSE {})

\* the static members of class AuthManager: the callable properties of the
\* object exported as window.AuthManager
StaticMembers(v) == {}

\* setLinks(role)
setLinks(role) == IF role = "student" THEN "student" ELSE "lecturer"

\* a radio button is chosen: its change handler sets the links
RadioChange(role) ==
    /\ acct' = [acct EXCEPT !.checked = role, !.links = setLinks(role)]
    /\ AccountOnly

\* DOMContentLoaded handler of the account page
AccountDOMContentLoaded ==
    /\ ~acct.ran
    /\ LET verifyToken == verifyTokenParam(loc.search)
       IN acct' = IF ~Truthy(verifyToken)
                  THEN [acct EXCEPT !.ran = TRUE]
                  ELSE IF "handleVerification" \in StaticMembers(variant)
                       THEN [acct EXCEPT !.ran = TRUE, !.handled = verifyToken]
                       ELSE [acct EXCEPT !.ran = TRUE, !.error = "TypeError"]
    /\ AccountOnly

NextAccount == AccountDOMContentLoaded \/ \E role \in {"lecturer", "student"} : RadioChange(role)

AccountSearches == UNION {[1..n -> AccountParams] : n \in 0..MaxParams}

InitAccount ==
    /\ variant \in Variants /\ path = <<"account">> /\ protocol = "http:" /\ script = "none"
    /\ urlParam = NULL /\ sess = NULL /\ token = NULL /\ user = NullUser /\ href = "none"
    /\ hpc = "done" /\ initRet = "skipped" /\ bridge = NoBridge /\ timer = NoTimer
    /\ api = [c \in Callers |-> IdleFrame] /\ op = IdleOp /\ TOKEN = NULL /\ lastApiReq = {}
    /\ ui = InitUi /\ srv = InitSrv /\ refreshed = NULL
    /\ local = InitLocal /\ list = InitList /\ side = InitSide /\ form = InitForm
    /\ loc \in {[InitLoc EXCEPT !.search = search] : search \in AccountSearches}
    /\ \E role \in {"lecturer", "student"} : acct = [InitAcct EXCEPT !.checked = role, !.links = setLinks(role)]

AccountSpec == InitAccount /\ [][NextAccount]_vars

(***************************************************************************)
(* The lecturer class page: sidebar toggle                                 *)
(***************************************************************************)
SideOnly == UNCHANGED <<acct, form, loc, list, local, variant, path, protocol, script, urlParam, token, user, sess, href, TOKEN, hpc, initRet, bridge, timer, api, op, lastApiReq, ui, srv, refreshed>>

\* icon.classList.replace(from, to)
replaceIcon(icon, from, to) == IF icon = from THEN to ELSE icon

\* the click listener registered at the top level of the script
topClick(s) ==
    LET collapsed == ~s.collapsed
    IN IF collapsed
       THEN [s EXCEPT !.collapsed = TRUE, !.icon = replaceIcon(s.icon, "fa-bars", "fa-chevron-right"), !.stored = "true"]
       ELSE [s EXCEPT !.collapsed = FALSE, !.icon = replaceIcon(s.icon, "fa-chevron-right", "fa-bars"), !.stored = "false"]

\* the click listener registered in the DOMContentLoaded handler;
\* setItem stores the boolean as the string 'true' or 'false'
domClick(s) ==
    LET collapsed == ~s.collapsed
    IN [s EXCEPT !.collapsed = collapsed,
                 !.icon = IF collapsed THEN replaceIcon(s.icon, "fa-bars", "fa-chevron-right") ELSE replaceIcon(s.icon, "fa-chevron-right", "fa-bars"),
                 !.stored = IF collapsed THEN "true" ELSE "false"]

\* the listeners of one click, run in the order of their registration
RECURSIVE runListeners(_, _)
runListeners(s, ls) == IF ls = <<>> THEN s ELSE runListeners(IF Head(ls) = "top" THEN topClick(s) ELSE domClick(s), Tail(ls))

\* loadPreferences() and checkScreenSize() at the top level of the script
loadPreferences(s) == IF s.stored = "true" THEN [s EXCEPT !.collapsed = TRUE, !.icon = replaceIcon(s.icon, "fa-bars", "fa-chevron-right")] ELSE s
checkScreenSize(s) == IF s.innerWidth <= 768 THEN [s EXCEPT !.collapsed = TRUE] ELSE s

\* one click on the toggle button
ToggleClick ==
    /\ side' = [runListeners(side, side.listeners) EXCEPT !.before = IF side.collapsed THEN "collapsed" ELSE "open"]
    /\ SideOnly

\* the asynchronous DOMContentLoaded handler starts: loadClasses() writes
\* to #classList and awaits the list of classes
SideDOMContentLoaded ==
    /\ side.pc = "start"
    /\ side' = [side EXCEPT !.pc = IF side.classList THEN "loading" ELSE "failed", !.before = "none"]
    /\ SideOnly

\* the list of classes is answered (or the request fails): the handler goes
\* on, registers its click listener and collapses the sidebar on a narrow
\* window or a stored 'true'; on the answer null loadClasses() throws and
\* the handler ends there
SideClassesLoaded ==
    /\ side.pc = "loading"
    /\ \E res \in {"null", "value"} :
        side' = IF res = "null"
                THEN [side EXCEPT !.pc = "failed", !.before = "none"]
                ELSE [side EXCEPT !.pc = "ready", !.listeners = Append(side.listeners, "dom"),
                                  !.collapsed = side.collapsed \/ side.innerWidth <= 768 \/ side.stored = "true",
                                  !.before = "none"]
    /\ SideOnly

\* the window is resized: the resize listeners collapse the sidebar on a
\* narrow window
Resize(width) ==
    /\ side' = [checkScreenSize([side EXCEPT !.innerWidth = width]) EXCEPT !.before = "none"]
    /\ SideOnly

\* a click on the program menu toggles its submenu
ProgramMenuClick ==
    /\ side' = [side EXCEPT !.submenu = ~side.submenu, !.before = "none"]
    /\ SideOnly

NextSide == ToggleClick \/ SideDOMContentLoaded \/ SideClassesLoaded \/ ProgramMenuClick \/ \E width \in Widths : Resize(width)

InitSidebar ==
    /\ variant = "v2" /\ path = <<"class">> /\ protocol = "http:" /\ script = "none"
    /\ urlParam = NULL /\ sess = NULL /\ token = NULL /\ user = NullUser /\ href = "none"
    /\ hpc = "done" /\ initRet = "skipped" /\ bridge = NoBridge /\ timer = NoTimer
    /\ api = [c \in Callers |-> IdleFrame] /\ op = IdleOp /\ TOKEN = NULL /\ lastApiReq = {}
    /\ ui = InitUi /\ srv = InitSrv /\ refreshed = NULL
    /\ local = InitLocal /\ list = InitList /\ form = InitForm /\ acct = InitAcct /\ loc = InitLoc
    /\ \E stored \in {NULL, "true", "false"}, width \in Widths, classList \in BOOLEAN :
        side = checkScreenSize(loadPreferences([InitSide EXCEPT !.stored = stored, !.innerWidth = width, !.classList = classList]))

SidebarSpec == InitSidebar /\ [][NextSide]_vars

Next ==
    \/ DOMContentLoaded
    \/ HealthResponse
    \/ TokenResponse
    \/ InitProfile
    \/ HandlerPost
    \/ \E c \in Callers : ApiResponse(c)
    \/ \E c \in Callers : ApiRefreshResponse(c)
    \/ TimerFire
    \/ TimerProfile
    \/ RecheckResponse
    \/ CallApiCall
    \/ ApiCallReturn
    \/ CallLogin
    \/ LoginResponse
    \/ CallRegister
    \/ RegisterResponse
    \/ CallResetPassword
    \/ ResetResponse
    \/ CallLogout
    \/ CallGetToken
    \/ CallWindowApiCall
    \/ WindowApiResponse
    \/ CallPageApi
    \/ PageApiResponse
    \/ OpenModal
    \/ CloseModal
    \/ SubmitJoin
    \/ JoinResponse

Spec == Init /\ [][Next]_vars

\* every request is eventually answered and every continuation and timer runs
FairSpec == Spec /\ WF_vars(Next) /\ \A c \in Callers : WF_vars(ApiResponse(c)) /\ WF_vars(ApiRefreshResponse(c))

TypeOK ==
    /\ token \in Tokens \cup {NULL, UNDEF, "undefined"}
    /\ sess \in Tokens \cup {NULL, "undefined"}
    /\ hpc \in {"start", "health", "token", "bridge", "validate", "post", "done"}
    /\ initRet \in {"none", "true", "false", "retrying", "skipped"}
    /\ \A c \in Callers : api[c].pc \in {"idle", "wait", "refresh", "done"}

(***************************************************************************)
(* Claims                                                                  *)
(***************************************************************************)
LoginUrls == {"/account", "/lecturer_login", "/student_login", "/logout", "student_login.html"}

\* C1: one apiCall invocation issues at most 2 requests to its endpoint and
\* at most 1 request to /api/get_token, whatever the server answers.
C1_RetriesOnce == \A c \in Callers : api[c].nReq <= 2 /\ api[c].nTok <= 1

\* C3: when an apiCall received 401 and the token could not be re-fetched,
\* window.location has been set to a login or logout URL once the caller has
\* the result, for init() and for every other caller.
C3_RedirectsOnExpiry ==
    /\ (op.kind = "apiCall" /\ op.pc = "idle" /\ op.expired) => href \in LoginUrls
    /\ (hpc \in {"post", "done"} /\ bridge.done /\ bridge.expired) => href \in LoginUrls
    /\ (timer.pc = "done" /\ timer.expired) => href \in LoginUrls

LoginReturns == op.pc = "login" /\ ~op.student /\ op'.pc = "idle"

\* C5: login() returns success only if the response contained a token, and
\* then sessionStorage and the manager hold that token and the manager the
\* returned user; without a token it returns failure and writes nothing to
\* sessionStorage.
C5_LoginSession == [][LoginReturns => ((op'.login.success => (~op'.resp.net /\ Truthy(op'.resp.body.token) /\ sess' = op'.resp.body.token /\ token' = op'.resp.body.token /\ user' = op'.resp.body.user)) /\ ((op'.resp.net \/ ~Truthy(op'.resp.body.token)) => (~op'.login.success /\ sess' = sess)))]_vars

\* C6: every request a client helper issues while sessionStorage holds a
\* token carries Authorization: Bearer <that token>, for every options
\* argument.
C6_BearerAlways == \A q \in lastApiReq : Truthy(q.sess) => q.headers["Authorization"] = Bearer(q.sess)

\* C8: a login rejected with a non-2xx status and a JSON body {error: E}
\* returns {success: false, error: X} with X containing E, and leaves the
\* manager's token, user and sessionStorage unchanged.
C8_LoginErrorSurfaced == [][(LoginReturns /\ ~op'.resp.net /\ ~Ok(op'.resp) /\ op'.resp.body.kind = "obj" /\ TruthyT(op'.resp.body.error)) => (~op'.login.success /\ Contains(op'.login.error, op'.resp.body.error) /\ token' = token /\ user' = user /\ sess' = sess)]_vars

StudentLoginReturns == op.pc = "login" /\ op.student /\ variant \in {"v2", "p2"} /\ op'.pc = "idle"
VerifyRejection(r) == ~r.net /\ r.status = 403 /\ r.body.kind = "obj" /\ TruthyT(r.body.error) /\ IncludesWord(r.body.error, "verify")

\* C9: studentLogin, when its login request is rejected with 403 and a JSON
\* body {error: E} whose E mentions 'verify', navigates to the initial-home
\* page of the current role and returns {success: false, error: 'Please
\* verify your email first.'}.
C9_Unverified == [][(StudentLoginReturns /\ VerifyRejection(op'.resp)) => (href' = initialHome(path) /\ op'.login = VerifyFirst)]_vars

\* C10: every apiCall invocation eventually returns a value, provided each
\* request is eventually answered.
C10_Terminates == \A c \in Callers : (api[c].pc = "wait") ~> (api[c].pc = "done")

\* a JSON object without a (non-empty) error field
NoErrorObject(b) == b.kind = "obj" /\ b.error \in {UNDEFT, NOTEXT}

\* init() took the bridge: no stored token, /api/health ok, /api/get_token
\* answered with a token
Bridged == bridge.tok # NULL

\* init() has just returned from the bridge
BridgeReturned == hpc = "post" /\ Bridged /\ bridge.done

\* the first profile request of the bridge is in flight
BridgeValidating == hpc = "bridge" /\ api["init"].pc = "wait" /\ api["init"].nReq = 1

\* C2 as stated: T is stored in sessionStorage and in the manager before the
\* profile is validated, and init() returns true if and only if the profile
\* request made with T succeeds without an error field, the user then being
\* that profile.
C2_BridgeWithT ==
    /\ BridgeValidating => (sess = bridge.tok /\ token = bridge.tok /\ api["init"].headers["Authorization"] = Bearer(bridge.tok))
    /\ BridgeReturned => ((initRet = "true") <=> (bridge.nReq = 1 /\ NoErrorObject(bridge.result)))
    /\ (BridgeReturned /\ initRet = "true") => user = AsUser(bridge.result)

\* C2 amended: T is stored in sessionStorage and in the manager before the
\* profile is validated, and init() returns true if and only if the profile
\* apiCall started with T resolves to a JSON object without an error field,
\* be it the answer to the request made with T or, after a 401 and a token
\* refresh, to the retry; the user is then that profile.
C2_Bridge ==
    /\ BridgeValidating => (sess = bridge.tok /\ token = bridge.tok /\ api["init"].headers["Authorization"] = Bearer(bridge.tok))
    /\ BridgeReturned => ((initRet = "true") <=> NoErrorObject(bridge.result))
    /\ BridgeReturned => (initRet \in {"true", "false"})
    /\ (BridgeReturned /\ initRet = "true") => user = AsUser(bridge.result)

C2_Witness == BridgeReturned /\ initRet = "true" /\ bridge.nReq = 1 /\ sess = bridge.tok /\ user = AsUser(bridge.result)

\* the handler and the timers of init() have run, and the page scripts have
\* started no operation
LoadSettled == hpc = "done" /\ timer.pc \in {"idle", "done"} /\ op.n = 0

\* init() returned false on a page that is no auth page and not opened via file:
NotAuthenticated == initRet = "false" /\ ~IsAuthPage(path) /\ protocol # "file:"

\* p2: the re-check of /api/health, 250ms after the failed one, answered ok
\* on a path under '/lecturer/' or '/student/'
RecheckPassed == variant = "p2" /\ timer.kind = "recheck250" /\ timer.pc = "done" /\ timer.ok /\ (StartsWithDir(path, "lecturer") \/ StartsWithDir(path, "student"))

\* C4 as stated: whenever init() returned false on such a page, the browser
\* has been navigated to a login or logout URL once the handler and the
\* timers have run.
C4_AlwaysNavigates == (LoadSettled /\ NotAuthenticated) => href \in LoginUrls

\* C4 amended: whenever init() returned false on such a page, the browser has
\* been navigated to a login or logout URL once the handler and the timers
\* have run, except in the copy with the 250ms re-check when the re-check of
\* /api/health answers ok on a path under '/lecturer/' or '/student/': then
\* auth.js does not navigate and the manager keeps token and user null.
C4_AutoLogout == (LoadSettled /\ NotAuthenticated) => IF RecheckPassed THEN (href \in {"none", "student_login.html"} /\ token = NULL /\ user = NullUser) ELSE href \in LoginUrls

C4_Witness == LoadSettled /\ NotAuthenticated /\ script = "none" /\ timer.kind = "recheck250" /\ ~timer.ok /\ href \in LoginUrls

\* the last response to the request of a settled apiCall was a 2xx with a
\* parsable body
ParsedOk(r) == ~r.net /\ Ok(r) /\ r.body.kind # "bad"

\* an apiCall of a copy with attemptCall has settled
Settled(c) == api[c].pc = "done" /\ variant # "v1"

\* C7 as stated: apiCall resolves to an object with an error field in every
\* case except a 2xx response with a parsable body, where it resolves to
\* that body; a non-2xx JSON body {error: E} yields {error: E}.
C7_ErrorBodies == \A c \in Callers : Settled(c) =>
    /\ IF ParsedOk(api[c].resp) THEN api[c].result = api[c].resp.body ELSE TruthyT(api[c].result.error)
    /\ (~api[c].resp.net /\ ~Ok(api[c].resp) /\ api[c].resp.body.kind = "obj" /\ api[c].resp.body.error # UNDEFT) => api[c].result = ErrBody(api[c].resp.body.error)

\* C7 amended: whenever apiCall settles it resolves, to an object with an
\* error field in every case except a 2xx response with a parsable body,
\* where it resolves to that body; a JSON body {error: E} with a non-empty E
\* and a non-2xx status other than 401 yields {error: E}.
C7_Resolves == \A c \in Callers : Settled(c) =>
    /\ IF ParsedOk(api[c].resp) THEN api[c].result = api[c].resp.body ELSE TruthyT(api[c].result.error)
    /\ (~api[c].resp.net /\ ~Ok(api[c].resp) /\ api[c].resp.status # 401 /\ api[c].resp.body.kind = "obj" /\ TruthyT(api[c].resp.body.error)) => api[c].result = ErrBody(api[c].resp.body.error)

C7_Witness == Settled("page") /\ api["page"].resp.status = 403 /\ api["page"].result = ErrBody(EV)

\* a page load on which init() runs with a token in sessionStorage
StoredTokenLoad == hpc = "start" /\ Truthy(sess) /\ ~IsAuthPage(path) /\ protocol # "file:"

\* the server accepts the token of a profile request: 2xx with a profile
Accepts(r) == ParsedOk(r) /\ NoErrorObject(r.body)

\* init() sends the stored token, and nothing else changes
RestoresStored == hpc' = "validate" /\ sess' = sess /\ token' = sess /\ href' = "none" /\ api'["init"].headers["Authorization"] = Bearer(sess) /\ api'["init"].nTok = 0

\* the first profile request of the token-present branch is answered with a profile
AcceptedAnswer == hpc = "validate" /\ api["init"].pc = "wait" /\ api["init"].nReq = 1 /\ api'["init"].pc = "done" /\ Accepts(api'["init"].resp)

\* init() returns from the token-present branch after an accepted first request
AcceptedReturn == hpc = "validate" /\ hpc' = "post" /\ api["init"].nReq = 1 /\ Accepts(api["init"].resp)

\* what init() leaves behind when the stored token was accepted
KeepsSession == initRet' = "true" /\ user' = AsUser(api["init"].resp.body) /\ sess' = sess /\ token' = sess /\ href' = href /\ api["init"].nTok = 0

\* C11 as stated: on every page load with a token in sessionStorage that the
\* server accepts, init() restores that token, sets the user from the
\* profile and returns true, without /api/health or /api/get_token, without
\* changing sessionStorage and without navigation.
C11_PersistsAlways == [][(StoredTokenLoad => RestoresStored) /\ (AcceptedAnswer => (UNCHANGED <<sess, token, href>> /\ api'["init"].result = api'["init"].resp.body)) /\ (AcceptedReturn => KeepsSession)]_vars

\* C11 amended: the same, on page loads whose URL carries no auth_token
\* parameter that init() would take (the second copy of auth.js and
\* part_002 overwrite sessionStorage with that parameter).
C11_Persists == [][((StoredTokenLoad /\ ~takesUrlToken(variant, urlParam)) => RestoresStored) /\ (AcceptedAnswer => (UNCHANGED <<sess, token, href>> /\ api'["init"].result = api'["init"].resp.body)) /\ (AcceptedReturn => KeepsSession)]_vars

C11_Witness == hpc = "post" /\ initRet = "true" /\ ~Bridged /\ bridge.done /\ bridge.nReq = 1 /\ sess = "T1" /\ token = "T1" /\ user = U1 /\ href = "none"

\* register() returns
RegisterReturns == op.pc = "register" /\ op'.pc = "idle"

\* C12: after register() returns {success: true} on a response that carries
\* a token and a redirect_url, the manager holds that token, sessionStorage
\* 'tapin_token' holds it too, and the browser has been navigated to the
\* server's redirect_url.
C12_AutoLogin == [][(RegisterReturns /\ op'.login.success /\ Truthy(op'.resp.body.token) /\ Truthy(op'.resp.body.redirect_url)) => (token' = op'.resp.body.token /\ sess' = op'.resp.body.token /\ href' = op'.resp.body.redirect_url)]_vars

\* the join form is submitted
SubmitStep == op'.kind = "join" /\ op'.n = op.n + 1

\* 4 to 6 decimal digits
PinShape(p) == Len(p) >= 4 /\ Len(p) <= 6 /\ \A i \in 1..Len(p) : p[i] \in DecimalDigits

\* exactly one POST /api/classes/join with body {join_pin: PIN} goes out
SendsJoin == ui'.nPost = 1 /\ ui'.join_pin = Trim(ui'.joinPin) /\ Cardinality(lastApiReq') = 1 /\ op'.pc = "join"

\* no request goes out, and class list and modal stay as they are
SendsNothing == ui'.nPost = 0 /\ lastApiReq' = {} /\ op'.pc = "idle" /\ ui'.modal = ui.modal /\ ui'.classes = ui.classes

\* the answer to the join request is handled
JoinAnswered == op.pc = "join" /\ op'.pc # "join"

\* the class list is re-fetched from /api/classes
Refetches == op'.pc = "pageApi" /\ op'.kind = "loadClasses" /\ lastApiReq' # {}

\* C13 as stated: a submit sends exactly one POST /api/classes/join with the
\* trimmed PIN if and only if that PIN is 4 to 6 decimal digits, otherwise
\* nothing is sent and nothing changes; the class list is re-fetched only if
\* the response has no error field.
C13_JoinNoErrorField == [][(SubmitStep => IF PinShape(Trim(ui'.joinPin)) THEN SendsJoin ELSE SendsNothing) /\ ((JoinAnswered /\ Refetches) => op'.data.error = UNDEFT)]_vars

\* C13 amended: the same, with the class list re-fetched if and only if the
\* response is a JSON object whose error field is absent or empty.
C13_Join == [][(SubmitStep => IF PinShape(Trim(ui'.joinPin)) THEN SendsJoin ELSE SendsNothing) /\ (JoinAnswered => (Refetches <=> (op'.data.kind = "obj" /\ op'.data.error \in {UNDEFT, NOTEXT})))]_vars

C13_Witness == op.pc = "join" /\ ui.joinPin = <<" ">> \o Digs(5) \o <<" ">> /\ ui.join_pin = Digs(5) /\ ui.nPost = 1

\* the session a mark request names, before and when the request is handled
MarkedSession == srv.sessions[srv'.mark.session_id]

\* C14: a mark-attendance request for a session that is closed or whose
\* expires_at has passed is rejected and leaves the attendance records as
\* they were.
C14_ClosedRejects == [][(MarkAttendance /\ MarkedSession.exists /\ (~MarkedSession.is_open \/ srv.now > MarkedSession.expires_at)) => (~srv'.mark.accepted /\ srv'.records = srv.records)]_vars

C14_Witness == srv.mark.session_id # 0 /\ srv.sessions[srv.mark.session_id].exists /\ srv.now > srv.sessions[srv.mark.session_id].expires_at /\ srv.sessions[srv.mark.session_id].is_open /\ ~srv.mark.accepted /\ srv.records = {}

\* the mark request handled in this step lies within the session's geofence
\* (geo) or carries the session's PIN (pin)
MarkAuthentic == IF MarkedSession.method = "geo" THEN Distance(MarkedSession.lecturer_pos, srv'.mark.pos) <= MarkedSession.radius_m ELSE srv'.mark.pin = MarkedSession.pin_code

RECURSIVE StringToNumber(_)
StringToNumber(str) == IF str = <<>> THEN 0 ELSE 10 * StringToNumber(SubSeq(str, 1, Len(str) - 1)) + (CHOOSE d \in 0..9 : DigitChars[d + 1] = str[Len(str)])

\* C16: every PIN the 'generate PIN' button writes into the form is an
\* integer in 100000..999999 and passes the format check of the student
\* join form (4 to 6 decimal digits after trimming).
C16_GeneratedPin == ui.joinPin # NoPin => (PinShape(ui.joinPin) /\ StringToNumber(ui.joinPin) >= 100000 /\ StringToNumber(ui.joinPin) <= 999999 /\ matchesPin(Trim(ui.joinPin)))

C16_Witness == ui.joinPin = <<"9", "9", "9", "9", "9", "9">>

\* the login pages auth.js redirects to
LoginPages == {"/account", "/lecturer_login", "/student_login"}

\* C17: whenever the load-time code of auth.js (init() and the
\* DOMContentLoaded handler) has sent the browser to a login page, it is the
\* one of the role of the current page: '/lecturer_login' on a path with
\* '/lecturer/', '/student_login' on a path with '/student/', '/account'
\* otherwise.
C17_RoleLogin == (op.n = 0 /\ href \in LoginPages) => href = RoleLoginPath(path)

\* C18: on a student class page loaded without a token in sessionStorage,
\* whenever /api/health and /api/get_token have succeeded (the bridge has
\* obtained a token), the page script has not declared the session expired:
\* the browser has not been sent to student_login.html.
C18_BridgeBeforePage == (script = "student_class" /\ Bridged) => href # "student_login.html"

\* C19: once attemptCall has refreshed the token, every request that
\* AuthManager.apiCall or the api() helper of a class page issues while
\* sessionStorage still holds the refreshed token carries that token.
C19_RefreshedEverywhere == \A q \in lastApiReq : (refreshed # NULL /\ sess = refreshed /\ q.sess = refreshed /\ q.helper \in {"api", "AuthManager.apiCall"}) => q.headers["Authorization"] = Bearer(refreshed)

\* init() has run to completion and no AuthManager operation is in flight
Quiet == hpc = "done" /\ initRet \in {"true", "false", "retrying"} /\ protocol # "file:" /\ op.pc = "idle" /\ timer.pc \in {"idle", "done"} /\ \A c \in Callers : api[c].pc = "idle"

\* the manager's token and sessionStorage 'tapin_token' are both absent or
\* hold the same token of the server
Coherent == (token = NULL /\ sess = NULL) \/ (token \in Tokens /\ sess = token)

\* C20: whenever init() has completed and no AuthManager operation is in
\* flight, the manager's token and sessionStorage 'tapin_token' are both
\* absent or hold the same string received from the server; after logout()
\* both are absent, the user is null and the navigation target is '/logout'.
C20_TokenCoherence == [][(Quiet' => Coherent') /\ ((op'.kind = "logout" /\ op'.n = op.n + 1) => (token' = NULL /\ sess' = NULL /\ user' = NullUser /\ href' = "/logout"))]_vars

\* the manager holds a token string and a user object of the server
HoldsServerSession == token \in Tokens /\ user.kind = "obj"

\* C21: isAuthenticated() is true only if the manager holds a token string
\* and a user object obtained from the server; hasRole(r) is truthy only if
\* isAuthenticated() is true and the role of the loaded user is r; after
\* logout() hasRole(r) is falsy for every r.
C21_RoleValidation == [][((isAuthenticated => HoldsServerSession) /\ (\A r \in Roles : hasRole(r) => (isAuthenticated /\ user.role = r)))' /\ ((op'.kind = "logout" /\ op'.n = op.n + 1) => \A r \in Roles : ~hasRole(r)')]_vars

\* is class c in arr
Stored(c, arr) == \E i \in 1..Len(arr) : arr[i] = c

\* what is kept under index for class c resolves to c while c is stored, and
\* to no class afterwards
RefersTo(index, c) == ClassAt(local.classes, index) = (IF Stored(c, local.classes) THEN c ELSE NoClass)

\* every list operation so far came from the list page of tab 1
SinglePage == ~local.loaded[2]

\* C22: the records stored under 'attendanceRecords_<index>' and the
\* 'lastClassIndex' entry keep referring to the class they were saved for
\* after any sequence of creations and deletions on one list page: they
\* resolve to that class while it exists and never to another (later
\* created) class.
C22_RefIntegrity == SinglePage => ((local.lastClassIndex # NoIndex => RefersTo(local.lastClassIndex, local.lastFor)) /\ (\A i \in 0..(MaxClasses - 1) : local.records[i] # NoClass => RefersTo(i, local.records[i])))

\* the classes created and not deleted, in creation order
Remaining == SelectSeq([c \in 1..local.created |-> c], LAMBDA c : c \notin local.deleted)

\* C23: the list stored under 'classes' holds exactly the classes created and
\* not deleted, in creation order, whatever tabs the submits and deletes
\* came from; after each operation the rendered list and the list in memory
\* of the page that performed it equal the stored list.
C23_NoLostUpdate == local.classes = Remaining /\ (local.by # 0 => (local.rendered[local.by] = local.classes /\ local.mem[local.by] = local.classes))

\* no request of the page is in flight
AllAnswered == list.issued > 0 /\ list.flying = {} /\ list.joins = 0 /\ list.leaves = 0

\* C24: once all in-flight requests have completed, the rendered class list
\* equals the (error-free) response of the most recently issued GET
\* /api/classes, in whatever order the responses of overlapping loadClasses()
\* calls arrived; a leave click sends the id of the class its row shows.
C24_LatestListShown == ((AllAnswered /\ ~list.got[list.issued].error) => list.rows = list.got[list.issued].list) /\ list.leave.sent = list.leave.shown

\* the handler of auth.js runs and calls init()
InitCalled == hpc = "start" /\ hpc' # "start" /\ ~IsAuthPage(path)

\* no parameter of the query string is named auth_token
NoAuthToken(search) == \A i \in 1..Len(search) : search[i].name # "auth_token"

\* init() starts validating tok: sessionStorage and the manager hold it, the
\* address has lost auth_token and kept every other parameter (name and
\* value, in order), and the first request is the profile request with tok
Bootstrapped(tok) == sess' = tok /\ token' = tok /\ NoAuthToken(loc'.search) /\ ParseSearch(loc'.search) = DeleteParam(ParseSearch(loc.search), "auth_token") /\ hpc' = "validate" /\ lastApiReq' # {} /\ \A q \in lastApiReq' : q.headers["Authorization"] = Bearer(tok) /\ q.sess = tok

\* init() has the answer of the validation of the token it took from the URL
UrlTokenValidated == hpc = "validate" /\ hpc' = "post" /\ loc.took # NULL

\* the validation ends as that of a stored token: the profile becomes the
\* user, or logout() clears the token and sessionStorage
ValidatedLikeStored == IF profileValid(api["init"].result) THEN (initRet' = "true" /\ user' = AsUser(api["init"].result) /\ UNCHANGED <<sess, token>>) ELSE (initRet' = "false" /\ sess' = NULL /\ token' = NULL /\ user' = NullUser /\ href' = "/logout")

\* C25 as stated: init() on a page whose URL has a parameter auth_token=T
\* stores T in sessionStorage and in the manager before its first request,
\* removes auth_token from the address and keeps the other parameters; T is
\* then validated like a stored token and removed by logout() if that fails.
C25_UrlTokenAnyPage == [][((InitCalled /\ Truthy(authTokenParam(loc.search))) => Bootstrapped(authTokenParam(loc.search))) /\ (UrlTokenValidated => ValidatedLikeStored)]_vars

\* C25: on a page that is not opened from file:, init() with a non-empty
\* first auth_token=T parameter stores T in sessionStorage and in the manager
\* before its first request, removes every auth_token from the address and
\* keeps the name and the value of every other parameter in order; T is then
\* validated like a stored token and removed by logout() if that fails.
C25_UrlToken == [][((InitCalled /\ protocol # "file:" /\ Truthy(authTokenParam(loc.search))) => Bootstrapped(authTokenParam(loc.search))) /\ (UrlTokenValidated => ValidatedLikeStored)]_vars

\* a token taken from the address, which had other parameters, is validated
C25_Witness == loc.took = "T2" /\ sess = "T2" /\ token = "T2" /\ hpc = "validate" /\ Len(loc.search) = 1 /\ loc.search[1].name = "q"

\* the path contains the name of a login or registration page
OnLoginOrRegistrationPage == \E name \in {"account", "lecturer_login", "student_login", "lecturer_create_account", "student_create_account", "lecturer_forgot_password", "student_forgot_password", "reset_password"} : IncludesSeg(path, name)

\* the DOMContentLoaded handler of auth.js runs
HandlerRuns == hpc = "start" /\ hpc' # "start"

\* C26: on a login or registration page the DOMContentLoaded handler of
\* auth.js does not call init(): it issues no request, changes neither
\* sessionStorage nor the manager's token and user and does not navigate; on
\* every other path it calls init() once, and init() is never entered again.
C26_AuthPagesSkipInit == [][(HandlerRuns => IF OnLoginOrRegistrationPage THEN (initRet' = "skipped" /\ hpc' = "done" /\ lastApiReq' = {} /\ api' = api /\ UNCHANGED <<sess, token, user, href>>) ELSE (initRet' # "skipped" /\ hpc' \in {"health", "validate", "post"})) /\ (hpc \in {"post", "done"} => hpc' \in {"post", "done"})]_vars

\* a login page was loaded with a stored token and an auth_token in the URL,
\* and the handler has returned without init()
C26_Witness == path = <<"student_login">> /\ hpc = "done" /\ initRet = "skipped" /\ sess = "T1" /\ token = NULL /\ urlParam = "T2" /\ op.n = 0

\* resetPassword is called
ResetCalled == op'.kind = "resetPassword" /\ op'.n = op.n + 1

\* resetPassword has the answer to its request
ResetAnswered == op.kind = "resetPassword" /\ op.pc = "reset" /\ op'.pc = "idle"

\* the server accepted the reset: a 2xx answer with a JSON body
ResetAccepted == ~op'.resp.net /\ Ok(op'.resp) /\ op'.resp.body.kind # "bad"

C28_ThreeOfFive == (form.passwordEl /\ form.ret # "none") => ((form.ret = "true" <=> Cardinality(RulesMet(form.pwd)) >= 3) /\ (form.ret = "true" => form.text # "Weak"))

\* C29: once the DOMContentLoaded handler of the account page has run, a
\* verify_token of the URL has been handed to a verification operation of
\* window.AuthManager and no error was raised; without a verify_token no
\* verification call was made.
C29_VerifyTokenHandled == acct.ran => (acct.error = "none" /\ acct.handled = (IF Truthy(verifyTokenParam(loc.search)) THEN verifyTokenParam(loc.search) ELSE NULL))

\* C30: right after a click on the sidebar toggle button the collapsed
\* state of the sidebar is the opposite of what it was before the click,
\* and localStorage 'sidebarCollapsed' is 'true' exactly when the sidebar
\* is collapsed, whichever click listeners are registered on the button.
C30_ToggleFlipsOnce == side.before # "none" => ((side.collapsed <=> side.before = "open") /\ (side.stored = "true" <=> side.collapsed))

====
